---- MODULE Spec2Model ----
(***************************************************************************)
(* Graph configuration pipeline of the agent engine:                       *)
(*   parse_graph_config  ->  canonicalize_graph_config                     *)
(*                       ->  validate_graph_config                         *)
(* A GraphConfig is modelled by the fields the canonicalizer and the       *)
(* validator read: graph.nodes (ids), graph.edges, graph.entrypoints,      *)
(* state.schema (its keys) and limits.                                     *)
(***************************************************************************)
EXTENDS Integers, Sequences, FiniteSets, TLC

VARIABLES
    pc,              \* position in the pipeline
    config,          \* the GraphConfig returned by parse_graph_config
    reordered,       \* the same payload listed in another order, parsed
    canonical,       \* canonicalize_graph_config(config)
    canonical_other, \* canonicalize_graph_config(reordered)
    recanonical,     \* canonicalize_graph_config(canonical)
    errors,          \* validate_graph_config(config)
    canonical_errors, \* validate_graph_config(canonical)
    compiler_config, \* GraphCompiler.config
    builder,         \* the config GraphCompiler hands to GraphBuilder
    upc,             \* position of the call of upgrade_graph_config
    raw_input,       \* the payload handed to upgrade_graph_config
    source_config,   \* the GraphConfig the payload was serialized from, if any
    migration,       \* what upgrade_graph_config returned or raised
    rpc,             \* position of the run of the compiled graph
    run_state,       \* ExecutionState: the values of the state paths
    frontier,        \* node ids pending for the next batch
    batch,           \* node ids of the batch in progress
    step_count,      \* ExecutionState.step_count
    elapsed,         \* wall-clock time since started_at
    cancel_signal,   \* the cancellation signal has been raised
    merged,          \* the patches merged into the state, in merge order
    exit_condition,  \* exit condition of the run
    returned_state,  \* the merges contained in the state handed to the caller
    ipc,             \* position of the call of _inject_system_prompt
    config_dict,     \* the caller's config dict, as it is after the call
    inject_input,    \* the value config_dict had when the call was made
    inject_prompt,   \* the system_prompt argument
    injected,        \* the dict _inject_system_prompt returned
    components,      \* component_registry._components: key -> component
    components_registered, \* the module flag _components_registered
    epc,             \* position of the call of ensure_components_registered
    ensure_outcome,  \* how the last call of ensure_components_registered ended
    register_outcome,\* how the last call of register from outside ended
    last_registered, \* per key, the component of the last register that returned
    outside_registered, \* some register from outside ensure_components_registered returned
    failed_midway,   \* a call of ensure_components_registered failed after registering
    resolve_args,    \* the arguments of the last call of resolve
    resolved         \* what the last call of resolve returned

pipelineVars == <<pc, config, reordered, canonical, canonical_other, recanonical,
                  errors, canonical_errors>>

compilerVars == <<compiler_config, builder>>

upgraderVars == <<upc, raw_input, source_config, migration>>

runtimeVars == <<rpc, run_state, frontier, batch, step_count, elapsed, cancel_signal,
                 merged, exit_condition, returned_state>>

factoryVars == <<ipc, config_dict, inject_input, inject_prompt, injected>>

registryVars == <<components, components_registered, epc, ensure_outcome,
                  register_outcome, last_registered, outside_registered, failed_midway,
                  resolve_args, resolved>>

vars == <<pipelineVars, compilerVars, upgraderVars, runtimeVars, factoryVars, registryVars>>

\* what the steps of the parse / validate / canonicalize pipeline leave alone
outsidePipeline == <<compilerVars, upgraderVars, runtimeVars, factoryVars, registryVars>>

\* what a call of upgrade_graph_config leaves alone
outsideUpgrader == <<pipelineVars, compilerVars, runtimeVars, factoryVars, registryVars>>

\* what a run of a compiled graph leaves alone
outsideRuntime == <<pipelineVars, compilerVars, upgraderVars, factoryVars, registryVars>>

\* what a call of _inject_system_prompt leaves alone
outsideFactory == <<pipelineVars, compilerVars, upgraderVars, runtimeVars, registryVars>>

\* what the calls on the component registry leave alone
outsideRegistry == <<pipelineVars, compilerVars, upgraderVars, runtimeVars, factoryVars>>

----------------------------------------------------------------------------
(* Bounds of the explored payloads *)

MaxNodes == 2
MaxEdges == 2
MaxEntrypoints == 2

----------------------------------------------------------------------------
(* Strings and their order.  Python compares str by code point; StrOrder   *)
(* lists every string the model uses in that order.                        *)

StrOrder ==
    <<"", " ", " a", "0", "1", "2", "END", "START", "a", "agent", "b",
      "brief", "c", "clarify", "d", "eq", "execution_context", "falsy",
      "final_report", "has_tool_calls", "messages", "need_clarification",
      "neq", "no_tool_calls", "node_1", "node_2", "node_3", "node_4",
      "notes", "null", "p", "q", "research_brief", "skip_research",
      "supervisor", "tools", "true", "truthy">>

StrRank(s) == CHOOSE i \in 1..Len(StrOrder) : StrOrder[i] = s

StrLt(s, t) == StrRank(s) < StrRank(t)

RECURSIVE Flatten(_)
Flatten(ss) == IF ss = <<>> THEN <<>> ELSE Head(ss) \o Flatten(Tail(ss))

SetToSortedSeq(S) ==
    LET n == Cardinality(S)
        rank(x) == Cardinality({y \in S : StrLt(y, x)})
    IN  [k \in 1..n |-> CHOOSE x \in S : rank(x) = k - 1]

Range(s) == {s[i] : i \in 1..Len(s)}

\* sorted(seq, key=...): Python's sort is stable, so the result is the one
\* permutation that is ascending in the key and keeps equal keys in input order.
StableSort(s, Lt(_, _)) ==
    LET n == Len(s)
        before(i) == {j \in 1..n : Lt(s[j], s[i]) \/ (~Lt(s[i], s[j]) /\ j < i)}
    IN  [k \in 1..n |-> s[CHOOSE i \in 1..n : Cardinality(before(i)) = k - 1]]

----------------------------------------------------------------------------
(* schemas/graph_config.py *)

NoLabel == "<none>"

\* BuiltinEdgeCondition
HAS_TOOL_CALLS == "has_tool_calls"
NO_TOOL_CALLS == "no_tool_calls"

\* edge.when: None | BuiltinEdgeCondition | EdgePredicate
WhenNone == [type |-> "none", cond |-> "", state_path |-> "", operator |-> "", value |-> ""]
WhenBuiltin(c) == [type |-> "builtin", cond |-> c, state_path |-> "", operator |-> "", value |-> ""]
EdgePredicate(path, op, val) ==
    [type |-> "predicate", cond |-> "", state_path |-> path, operator |-> op, value |-> val]

GraphEdgeConfig(f, t, w, p, l) ==
    [from_node |-> f, to_node |-> t, when |-> w, priority |-> p, label |-> l]

\* a node of the graph: its id and its kind (GraphNodeKind, the discriminator
\* of LLMGraphNode, ToolGraphNode, TransformGraphNode, ComponentGraphNode)
GraphNodeOfKind(id, kind) == [id |-> id, kind |-> kind]

GraphNodeKinds == {"llm", "tool", "transform", "component"}

GraphNode(id) == GraphNodeOfKind(id, "llm")

\* GraphExecutionLimits: Field(ge=1, le=...)
LimitMin == 1
MaxTimeLimit == 3600
MaxStepsLimit == 100000

\* a version string, kept as its characters so that its prefix can be read
SchemaVersion(major, minor) == <<major, ".", minor>>

\* GraphConfig.schema_version: Literal["3.0"]
SCHEMA_VERSION_3_0 == SchemaVersion("3", "0")

NoConfig == [schema_version |-> <<>>, nodes |-> <<>>, edges |-> <<>>, entrypoints |-> <<>>,
             schema |-> {}, max_steps |-> -1, max_time_s |-> -1]

\* a schema whose limits carry no ge=1
ParseAcceptsAnyLimits(raw) ==
    /\ raw.schema_version = SCHEMA_VERSION_3_0
    /\ Len(raw.entrypoints) >= 1
    /\ Cardinality(Range(raw.entrypoints)) = Len(raw.entrypoints)
    /\ \A i \in 1..Len(raw.nodes) : raw.nodes[i].id # ""
    /\ \A i \in 1..Len(raw.edges) :
          /\ raw.edges[i].from_node # ""
          /\ raw.edges[i].to_node # ""
          /\ raw.edges[i].when.type = "predicate" => raw.edges[i].when.state_path # ""
    /\ raw.max_time_s <= MaxTimeLimit
    /\ raw.max_steps <= MaxStepsLimit

\* GraphConfig.model_validate: the constraints the schema puts on the fields
\* modelled here (schema_version "3.0", entrypoints min_length=1 and unique,
\* limits within range, non-empty ids and endpoints).
ParseAccepts(raw) ==
    /\ raw.schema_version = SCHEMA_VERSION_3_0
    /\ Len(raw.entrypoints) >= 1
    /\ Cardinality(Range(raw.entrypoints)) = Len(raw.entrypoints)
    /\ \A i \in 1..Len(raw.nodes) : raw.nodes[i].id # ""
    /\ \A i \in 1..Len(raw.edges) :
          /\ raw.edges[i].from_node # ""
          /\ raw.edges[i].to_node # ""
          /\ raw.edges[i].when.type = "predicate" => raw.edges[i].when.state_path # ""
    /\ raw.max_time_s >= LimitMin /\ raw.max_time_s <= MaxTimeLimit
    /\ raw.max_steps >= LimitMin /\ raw.max_steps <= MaxStepsLimit

----------------------------------------------------------------------------
(* agents/graph/canonicalizer.py *)

edge_when_sort_key(when) ==
    IF when.type = "none" THEN <<"0", "", "", "">>
    ELSE IF when.type = "builtin" THEN <<"1", when.cond, "", "">>
    ELSE <<"2", when.state_path, when.operator, when.value>>

\* a key that takes the priority as it is: lower priorities first
edge_sort_key_by_priority(edge) ==
    LET w == edge_when_sort_key(edge.when)
    IN  <<edge.from_node, edge.priority, w[1], w[2], w[3], w[4], edge.to_node>>

edge_sort_key(edge) ==
    LET w == edge_when_sort_key(edge.when)
    IN  <<edge.from_node, -edge.priority, w[1], w[2], w[3], w[4], edge.to_node>>

\* Python's tuple comparison of two edge sort keys (position 2 is an int)
KeyElemLt(i, x, y) == IF i = 2 THEN x < y ELSE StrLt(x, y)

EdgeKeyLt(e1, e2) ==
    LET k1 == edge_sort_key(e1)
        k2 == edge_sort_key(e2)
    IN  \E i \in 1..7 :
            /\ \A j \in 1..(i - 1) : k1[j] = k2[j]
            /\ KeyElemLt(i, k1[i], k2[i])

NodeIdLt(n1, n2) == StrLt(n1.id, n2.id)

\* a sort that is not stable: equal keys come out in reverse input order
UnstableSort(s, Lt(_, _)) ==
    LET n == Len(s)
        before(i) == {j \in 1..n : Lt(s[j], s[i]) \/ (~Lt(s[i], s[j]) /\ j > i)}
    IN  [k \in 1..n |-> s[CHOOSE i \in 1..n : Cardinality(before(i)) = k - 1]]

canonicalize_unstable(c) ==
    [c EXCEPT !.nodes = UnstableSort(c.nodes, NodeIdLt),
              !.edges = UnstableSort(c.edges, EdgeKeyLt),
              !.entrypoints = UnstableSort(c.entrypoints, StrLt)]

\* a canonical form built from the set of edges: equal edges collapse
canonicalize_distinct_edges(c) ==
    LET n == Len(c.edges)
        first == {i \in 1..n : \A j \in 1..(i - 1) : c.edges[j] # c.edges[i]}
        pos(i) == Cardinality({j \in first : j < i})
        distinct == [k \in 1..Cardinality(first) |->
                        c.edges[CHOOSE i \in first : pos(i) = k - 1]]
    IN  [c EXCEPT !.nodes = StableSort(c.nodes, NodeIdLt),
                  !.edges = StableSort(distinct, EdgeKeyLt),
                  !.entrypoints = StableSort(c.entrypoints, StrLt)]

canonicalize_graph_config(c) ==
    [c EXCEPT !.nodes = StableSort(c.nodes, NodeIdLt),
              !.edges = StableSort(c.edges, EdgeKeyLt),
              !.entrypoints = StableSort(c.entrypoints, StrLt)]

----------------------------------------------------------------------------
(* agents/graph/validator.py *)

BUILTIN_STATE_PATHS == {"messages", "execution_context"}

\* GraphConfigValidationError(code, path, message).  A path that carries a
\* list index is kept as the path text plus idx; arg is the part of the
\* message that varies (the ids or the state path the message names).
Error(code, path, idx, arg) == [code |-> code, path |-> path, idx |-> idx, arg |-> arg]

NodeIdSeq(c) == [i \in 1..Len(c.nodes) |-> c.nodes[i].id]

\* an adjacency that leaves out the edges from a node to itself
build_adjacency_without_self_loops(edges, node_ids) ==
    [n \in node_ids |->
        {edges[i].to_node : i \in {j \in 1..Len(edges) :
            /\ edges[j].from_node = n
            /\ edges[j].to_node # n
            /\ edges[j].from_node \in node_ids
            /\ edges[j].to_node \in node_ids}}]

build_adjacency(edges, node_ids) ==
    [n \in node_ids |->
        {edges[i].to_node : i \in {j \in 1..Len(edges) :
            /\ edges[j].from_node = n
            /\ edges[j].from_node \in node_ids
            /\ edges[j].to_node \in node_ids}}]

\* adjacency.get(node, set())
AdjGet(adjacency, node) ==
    IF node \in DOMAIN adjacency THEN adjacency[node] ELSE {}

\* _has_cycle: three-colour depth-first search.  The search starts from
\* next(iter(white)) and walks each successor set in its iteration order;
\* both orders are arbitrary, so the operators below return the set of
\* results over every order.  An outcome is [found, black].
RECURSIVE VisitSuccessors(_, _, _, _, _)
RECURSIVE visit(_, _, _, _)
VisitSuccessors(adjacency, node, rest, gray, black) ==
    IF rest = {}
    THEN {[found |-> FALSE, black |-> black \cup {node}]}
    ELSE UNION {
        IF nxt \in black
        THEN VisitSuccessors(adjacency, node, rest \ {nxt}, gray, black)
        ELSE IF nxt \in gray
        THEN {[found |-> TRUE, black |-> black]}
        ELSE UNION {
            IF o.found THEN {o}
            ELSE VisitSuccessors(adjacency, node, rest \ {nxt}, gray, o.black)
            : o \in visit(adjacency, nxt, gray, black)}
        : nxt \in rest}

visit(adjacency, node, gray, black) ==
    VisitSuccessors(adjacency, node, AdjGet(adjacency, node), gray \cup {node}, black)

RECURSIVE HasCycleFrom(_, _)
HasCycleFrom(adjacency, black) ==
    LET white == (DOMAIN adjacency) \ black
    IN  IF white = {} THEN {FALSE}
        ELSE UNION {
            UNION {IF o.found THEN {TRUE} ELSE HasCycleFrom(adjacency, o.black)
                   : o \in visit(adjacency, node, {}, black)}
            : node \in white}

has_cycle(adjacency) == HasCycleFrom(adjacency, {})

\* _reachable_from_entrypoints: breadth-first search with a list as queue
RECURSIVE ReachableLoop(_, _, _)
ReachableLoop(queue, visited, adjacency) ==
    IF queue = <<>> THEN visited
    ELSE LET node == Head(queue)
         IN  IF node \in visited
             THEN ReachableLoop(Tail(queue), visited, adjacency)
             ELSE LET v == visited \cup {node}
                      more == SetToSortedSeq(AdjGet(adjacency, node) \ v)
                      \* the order in which a successor set is walked does
                      \* not change the visited set returned
                  IN  ReachableLoop(Tail(queue) \o more, v, adjacency)

\* a search that never leaves the entrypoints
reachable_entrypoints_only(entrypoints, adjacency) ==
    {entrypoints[i] : i \in 1..Len(entrypoints)}

reachable_from_entrypoints(entrypoints, adjacency) ==
    ReachableLoop(entrypoints, {}, adjacency)

\* _is_end_reachable: breadth-first search over outgoing[edge.from_node]
OutgoingEdges(edges, node) == SelectSeq(edges, LAMBDA e : e.from_node = node)

\* a scan that stops after the first outgoing edge of a node
ScanFirstOutgoing(out, visited_nodes, queue) ==
    IF out = <<>> THEN [found |-> FALSE, queue |-> queue]
    ELSE IF Head(out).to_node = "END" THEN [found |-> TRUE, queue |-> queue]
    ELSE IF Head(out).to_node \notin visited_nodes
         THEN [found |-> FALSE, queue |-> Append(queue, Head(out).to_node)]
         ELSE [found |-> FALSE, queue |-> queue]

RECURSIVE ScanOutgoing(_, _, _)
\* walks the outgoing edges of one node: [found, queue]
ScanOutgoing(out, visited_nodes, queue) ==
    IF out = <<>> THEN [found |-> FALSE, queue |-> queue]
    ELSE IF Head(out).to_node = "END" THEN [found |-> TRUE, queue |-> queue]
    ELSE IF Head(out).to_node \notin visited_nodes
         THEN ScanOutgoing(Tail(out), visited_nodes, Append(queue, Head(out).to_node))
         ELSE ScanOutgoing(Tail(out), visited_nodes, queue)

RECURSIVE EndReachableLoop(_, _, _)
EndReachableLoop(queue, visited_nodes, edges) ==
    IF queue = <<>> THEN FALSE
    ELSE LET node == Head(queue)
         IN  IF node \in visited_nodes
             THEN EndReachableLoop(Tail(queue), visited_nodes, edges)
             ELSE LET v == visited_nodes \cup {node}
                      r == ScanOutgoing(OutgoingEdges(edges, node), v, Tail(queue))
                  IN  IF r.found THEN TRUE
                      ELSE EndReachableLoop(r.queue, v, edges)

\* a test that takes END as reachable in every graph
is_end_reachable_always(entrypoints, edges) == TRUE

is_end_reachable(entrypoints, edges) == EndReachableLoop(entrypoints, {}, edges)

\* indices (0-based, as enumerate gives them) of the edges of one source
\* that satisfy a test, in list order
EdgeIdxWhere(edges, source, Test(_)) ==
    LET n == Len(edges)
        hit == {i \in 1..n : edges[i].from_node = source /\ Test(edges[i])}
        pos(i) == Cardinality({j \in hit : j < i})
    IN  [k \in 1..Cardinality(hit) |-> (CHOOSE i \in hit : pos(i) = k - 1) - 1]

\* keys of edges_by_source in insertion order (first occurrence of a source)
SourcesInOrder(edges) ==
    LET n == Len(edges)
        first == {i \in 1..n : \A j \in 1..(i - 1) : edges[j].from_node # edges[i].from_node}
        pos(i) == Cardinality({j \in first : j < i})
    IN  [k \in 1..Cardinality(first) |-> edges[CHOOSE i \in first : pos(i) = k - 1].from_node]

IsDefaultEdge(e) == e.when.type = "none"
IsHasToolEdge(e) == e.when.type = "builtin" /\ e.when.cond = HAS_TOOL_CALLS
IsNoToolEdge(e) == e.when.type = "builtin" /\ e.when.cond = NO_TOOL_CALLS
IsCustomPredicateEdge(e) == e.when.type = "predicate"

EntrypointErrors(entrypoints, node_id_set) ==
    Flatten([i \in 1..Len(entrypoints) |->
        IF entrypoints[i] \notin node_id_set
        THEN <<Error("ENTRYPOINT_NOT_FOUND", "graph.entrypoints[]", i - 1, {entrypoints[i]})>>
        ELSE <<>>])

\* the source check without its last branch
EdgeSourceErrorsNoDangling(edge, idx, node_id_set) ==
    IF edge.from_node = "START"
    THEN <<Error("EDGE_FROM_START_FORBIDDEN", "graph.edges[].from_node", idx, {})>>
    ELSE IF edge.from_node = "END"
    THEN <<Error("EDGE_FROM_END_FORBIDDEN", "graph.edges[].from_node", idx, {})>>
    ELSE <<>>

EdgeSourceErrors(edge, idx, node_id_set) ==
    IF edge.from_node = "START"
    THEN <<Error("EDGE_FROM_START_FORBIDDEN", "graph.edges[].from_node", idx, {})>>
    ELSE IF edge.from_node = "END"
    THEN <<Error("EDGE_FROM_END_FORBIDDEN", "graph.edges[].from_node", idx, {})>>
    ELSE IF edge.from_node \notin node_id_set
    THEN <<Error("EDGE_SOURCE_NOT_FOUND", "graph.edges[].from_node", idx, {edge.from_node})>>
    ELSE <<>>

EdgeTargetErrors(edge, idx, node_id_set) ==
    IF edge.to_node = "START"
    THEN <<Error("EDGE_TO_START_FORBIDDEN", "graph.edges[].to_node", idx, {})>>
    ELSE IF edge.to_node # "END" /\ edge.to_node \notin node_id_set
    THEN <<Error("EDGE_TARGET_NOT_FOUND", "graph.edges[].to_node", idx, {edge.to_node})>>
    ELSE <<>>

\* a check that forgets the built-in state paths
EdgePredicateErrorsSchemaOnly(edge, idx, state_paths) ==
    IF edge.when.type = "predicate"
       /\ edge.when.state_path \notin state_paths \ BUILTIN_STATE_PATHS
    THEN <<Error("PREDICATE_STATE_PATH_MISSING", "graph.edges[].when.state_path", idx,
                 {edge.when.state_path})>>
    ELSE <<>>

EdgePredicateErrors(edge, idx, state_paths) ==
    IF edge.when.type = "predicate" /\ edge.when.state_path \notin state_paths
    THEN <<Error("PREDICATE_STATE_PATH_MISSING", "graph.edges[].when.state_path", idx,
                 {edge.when.state_path})>>
    ELSE <<>>

\* per-edge checks chained with elif: the first error of an edge hides the rest
EdgeErrorsFirstOnly(edges, node_id_set, state_paths) ==
    Flatten([i \in 1..Len(edges) |->
        LET all == EdgeSourceErrors(edges[i], i - 1, node_id_set)
                   \o EdgeTargetErrors(edges[i], i - 1, node_id_set)
                   \o EdgePredicateErrors(edges[i], i - 1, state_paths)
        IN  IF all = <<>> THEN <<>> ELSE <<Head(all)>>])

EdgeErrors(edges, node_id_set, state_paths) ==
    Flatten([i \in 1..Len(edges) |->
        EdgeSourceErrors(edges[i], i - 1, node_id_set)
        \o EdgeTargetErrors(edges[i], i - 1, node_id_set)
        \o EdgePredicateErrors(edges[i], i - 1, state_paths)])

\* determinism checks that let a source mix built-in and custom routing
SourceDeterminismErrorsNoMixed(edges, source) ==
    LET default_edges == EdgeIdxWhere(edges, source, IsDefaultEdge)
        has_tool_edges == EdgeIdxWhere(edges, source, IsHasToolEdge)
        no_tool_edges == EdgeIdxWhere(edges, source, IsNoToolEdge)
    IN  (IF Len(default_edges) > 1
         THEN <<Error("MULTIPLE_DEFAULT_EDGES", "graph.edges[].when",
                      default_edges[2], {source})>>
         ELSE <<>>)
     \o (IF Len(has_tool_edges) > 1
         THEN <<Error("DUPLICATE_HAS_TOOL_CALLS_EDGE", "graph.edges[].when",
                      has_tool_edges[2], {source})>>
         ELSE <<>>)
     \o (IF Len(no_tool_edges) > 1
         THEN <<Error("DUPLICATE_NO_TOOL_CALLS_EDGE", "graph.edges[].when",
                      no_tool_edges[2], {source})>>
         ELSE <<>>)

\* Determinism checks of one source node
SourceDeterminismErrors(edges, source) ==
    LET default_edges == EdgeIdxWhere(edges, source, IsDefaultEdge)
        has_tool_edges == EdgeIdxWhere(edges, source, IsHasToolEdge)
        no_tool_edges == EdgeIdxWhere(edges, source, IsNoToolEdge)
        custom_predicate_edges == EdgeIdxWhere(edges, source, IsCustomPredicateEdge)
    IN  (IF Len(default_edges) > 1
         THEN <<Error("MULTIPLE_DEFAULT_EDGES", "graph.edges[].when",
                      default_edges[2], {source})>>
         ELSE <<>>)
     \o (IF Len(has_tool_edges) > 1
         THEN <<Error("DUPLICATE_HAS_TOOL_CALLS_EDGE", "graph.edges[].when",
                      has_tool_edges[2], {source})>>
         ELSE <<>>)
     \o (IF Len(no_tool_edges) > 1
         THEN <<Error("DUPLICATE_NO_TOOL_CALLS_EDGE", "graph.edges[].when",
                      no_tool_edges[2], {source})>>
         ELSE <<>>)
     \o (IF (Len(has_tool_edges) > 0 \/ Len(no_tool_edges) > 0)
            /\ Len(custom_predicate_edges) > 0
         THEN <<Error("MIXED_BUILTIN_AND_CUSTOM_ROUTING", "graph.edges[].when",
                      custom_predicate_edges[1], {source})>>
         ELSE <<>>)

\* for source, edge_entries in edges_by_source.items()
DeterminismErrors(edges) ==
    LET sources == SourcesInOrder(edges)
    IN  Flatten([k \in 1..Len(sources) |-> SourceDeterminismErrors(edges, sources[k])])

\* validate_graph_config(config); cyc is the value _has_cycle returned
validate_graph_config(c, cyc) ==
    LET nodes == c.nodes
        edges == c.edges
        entrypoints == c.entrypoints
        node_ids == NodeIdSeq(c)
        node_id_set == Range(node_ids)
        duplicate_ids == {id \in node_id_set :
                            Cardinality({i \in 1..Len(node_ids) : node_ids[i] = id}) > 1}
        state_paths == c.schema \cup BUILTIN_STATE_PATHS
        adjacency == build_adjacency(edges, node_id_set)
        reachable == reachable_from_entrypoints(entrypoints, adjacency)
        unreachable == node_id_set \ reachable
    IN  IF Len(nodes) = 0
        THEN <<Error("EMPTY_GRAPH", "graph.nodes", -1, {})>>
        ELSE (IF duplicate_ids # {}
              THEN <<Error("DUPLICATE_NODE_ID", "graph.nodes", -1, duplicate_ids)>>
              ELSE <<>>)
          \o (IF Len(entrypoints) # 1
              THEN <<Error("MULTIPLE_ENTRYPOINTS_UNSUPPORTED", "graph.entrypoints", -1, {})>>
              ELSE <<>>)
          \o EntrypointErrors(entrypoints, node_id_set)
          \o EdgeErrors(edges, node_id_set, state_paths)
          \o DeterminismErrors(edges)
          \o (IF unreachable # {}
              THEN <<Error("UNREACHABLE_NODE", "graph.nodes", -1, unreachable)>>
              ELSE <<>>)
          \o (IF ~is_end_reachable(entrypoints, edges)
              THEN <<Error("END_UNREACHABLE", "graph.edges", -1, {})>>
              ELSE <<>>)
          \o (IF cyc /\ c.max_steps <= 0 /\ c.max_time_s <= 0
              THEN <<Error("CYCLE_LIMITS_REQUIRED", "limits", -1, {})>>
              ELSE <<>>)

\* the values _has_cycle can return for the config's adjacency
CycleResults(c) == has_cycle(build_adjacency(c.edges, Range(NodeIdSeq(c))))

----------------------------------------------------------------------------
(* agents/graph/compiler.py *)

\* the condition of a legacy edge: None | ConditionType | CustomCondition
LegacyNoCondition ==
    [type |-> "none", cond |-> "", state_key |-> "", operator |-> "", value |-> "",
     target |-> ""]

LegacyGraphEdgeConfig(f, t, cond, l, p) ==
    [from_node |-> f, to_node |-> t, condition |-> cond, label |-> l, priority |-> p]

\* a table that takes EQUALS and NOT_EQUALS for each other
predicate_operator_map_swapped(operator) ==
    CASE operator = "eq" -> "neq"
      [] operator = "neq" -> "eq"
      [] OTHER -> operator

\* _PREDICATE_OPERATOR_MAP: the ConditionOperator member of the same name;
\* members are written by their values, which the two enums share (the
\* upgrader hands condition.operator.value to the v3 schema)
PREDICATE_OPERATOR_MAP(operator) ==
    CASE operator = "eq" -> "eq"
      [] operator = "neq" -> "neq"
      [] operator = "truthy" -> "truthy"
      [] operator = "falsy" -> "falsy"

\* GraphCompiler._to_legacy_edge
to_legacy_edge(edge) ==
    LET condition ==
            IF edge.when.type = "none" THEN LegacyNoCondition
            ELSE IF edge.when.type = "builtin"
            THEN [LegacyNoCondition EXCEPT
                    !.type = "builtin",
                    !.cond = IF edge.when.cond = HAS_TOOL_CALLS
                             THEN "has_tool_calls" ELSE "no_tool_calls"]
            ELSE [LegacyNoCondition EXCEPT
                    !.type = "custom",
                    !.state_key = edge.when.state_path,
                    !.operator = PREDICATE_OPERATOR_MAP(edge.when.operator),
                    !.value = edge.when.value,
                    !.target = edge.to_node]
    IN  LegacyGraphEdgeConfig(edge.from_node, edge.to_node, condition, edge.label,
                              edge.priority)

\* a node of the legacy (v2) config: id, type and whether the config of its
\* type (llm_config, tool_config, transform_config, component_config) is set
LegacyNode(id, type, has_config) == [id |-> id, type |-> type, has_config |-> has_config]

\* GraphCompiler._to_legacy_node: one branch per node class, each building
\* the config of its type
to_legacy_node(node) ==
    CASE node.kind = "llm" -> LegacyNode(node.id, "llm", TRUE)
      [] node.kind = "tool" -> LegacyNode(node.id, "tool", TRUE)
      [] node.kind = "transform" -> LegacyNode(node.id, "transform", TRUE)
      [] OTHER -> LegacyNode(node.id, "component", TRUE)

NoBuilder ==
    [version |-> "", nodes |-> <<>>, edges |-> <<>>, entry_point |-> "",
     custom_state_fields |-> {}, max_steps |-> -1, max_execution_time_seconds |-> -1]

\* a legacy form that hands the two limits over crosswise
to_legacy_graph_config_swapped_limits(c) ==
    LET entry_point == c.entrypoints[1]
    IN  [version |-> "2.0",
         nodes |-> [i \in 1..Len(c.nodes) |-> to_legacy_node(c.nodes[i])],
         edges |-> <<LegacyGraphEdgeConfig("START", entry_point, LegacyNoCondition,
                                           NoLabel, 0)>>
                   \o [i \in 1..Len(c.edges) |-> to_legacy_edge(c.edges[i])],
         entry_point |-> entry_point,
         custom_state_fields |-> c.schema,
         max_steps |-> c.max_time_s,
         max_execution_time_seconds |-> c.max_steps]

\* GraphCompiler._to_legacy_graph_config.  entrypoints[0] of an empty list
\* raises IndexError; the schema's min_length=1 keeps the list non-empty.
to_legacy_graph_config(c) ==
    LET entry_point == c.entrypoints[1]
    IN  [version |-> "2.0",
         nodes |-> [i \in 1..Len(c.nodes) |-> to_legacy_node(c.nodes[i])],
         edges |-> <<LegacyGraphEdgeConfig("START", entry_point, LegacyNoCondition,
                                           NoLabel, 0)>>
                   \o [i \in 1..Len(c.edges) |-> to_legacy_edge(c.edges[i])],
         entry_point |-> entry_point,
         custom_state_fields |-> c.schema,
         max_steps |-> c.max_steps,
         max_execution_time_seconds |-> c.max_time_s]

\* a check that lets a config with a single error through
ensure_valid_raises_on_several(errs) == Len(errs) > 1

\* ensure_valid_graph_config: raises ValueError unless the error list is empty
ensure_valid_raises(errs) == errs # <<>>

----------------------------------------------------------------------------
(* agents/graph/upgrader.py *)

\* str.startswith on a string kept as its characters
StartsWith(s, prefix) ==
    Len(s) >= Len(prefix) /\ SubSeq(s, 1, Len(prefix)) = prefix

\* str.strip() on the node ids the payloads use
Strip(s) ==
    CASE s = " " -> ""
      [] s = " a" -> "a"
      [] OTHER -> s

\* f"node_{index + 1}"
DefaultNodeId(index) ==
    CASE index = 0 -> "node_1"
      [] index = 1 -> "node_2"
      [] index = 2 -> "node_3"
      [] OTHER -> "node_4"

None == "<none>"

\* GraphConfigMigrationWarning(code, path, message); idx is the list index the
\* path carries, -1 when it carries none
Warning(code, path, idx) == [code |-> code, path |-> path, idx |-> idx]

\* what a helper hands back: the code of the GraphConfigMigrationError it
\* raised ("" when it returned), its value and the warnings it appended
Returned(value, warnings) == [raised |-> "", value |-> value, warnings |-> warnings]
Raised(code) == [raised |-> code, value |-> <<>>, warnings |-> <<>>]

\* _convert_v2_node
convert_v2_node(node, node_id, index) ==
    IF node.type = "llm"
    THEN Returned(GraphNodeOfKind(node_id, node.type),
                  IF node.has_config THEN <<>>
                  ELSE <<Warning("MISSING_LLM_CONFIG_DEFAULTED", "nodes[].llm_config", index)>>)
    ELSE IF node.type = "tool"
    THEN Returned(GraphNodeOfKind(node_id, node.type),
                  IF node.has_config THEN <<>>
                  ELSE <<Warning("MISSING_TOOL_CONFIG_DEFAULTED", "nodes[].tool_config", index)>>)
    ELSE IF node.type = "transform"
    THEN IF node.has_config THEN Returned(GraphNodeOfKind(node_id, node.type), <<>>)
         ELSE Raised("MISSING_TRANSFORM_CONFIG")
    ELSE IF node.has_config THEN Returned(GraphNodeOfKind(node_id, "component"), <<>>)
         ELSE Raised("MISSING_COMPONENT_CONFIG")

\* a node loop without the test "if node_id in node_ids"
RECURSIVE ConvertNodesKeepingDuplicates(_, _, _, _, _)
ConvertNodesKeepingDuplicates(nodes, index, node_ids, v3_nodes, warnings) ==
    IF index >= Len(nodes) THEN Returned(<<node_ids, v3_nodes>>, warnings)
    ELSE LET node == nodes[index + 1]
             stripped == Strip(node.id)
             node_id == IF stripped = "" THEN DefaultNodeId(index) ELSE stripped
             warned == IF stripped = ""
                       THEN Append(warnings,
                                   Warning("MISSING_NODE_ID_DEFAULTED", "nodes[].id", index))
                       ELSE warnings
             converted == convert_v2_node(node, node_id, index)
         IN  IF converted.raised # "" THEN converted
             ELSE ConvertNodesKeepingDuplicates(nodes, index + 1, node_ids \cup {node_id},
                      Append(v3_nodes, converted.value), warned \o converted.warnings)

\* _convert_v2_to_v3_raw, the loop over config_v2.nodes from position index
\* (0-based): the value is <<node_ids, v3_nodes>>
RECURSIVE ConvertNodes(_, _, _, _, _)
ConvertNodes(nodes, index, node_ids, v3_nodes, warnings) ==
    IF index >= Len(nodes) THEN Returned(<<node_ids, v3_nodes>>, warnings)
    ELSE LET node == nodes[index + 1]
             stripped == Strip(node.id)
             node_id == IF stripped = "" THEN DefaultNodeId(index) ELSE stripped
             warned == IF stripped = ""
                       THEN Append(warnings,
                                   Warning("MISSING_NODE_ID_DEFAULTED", "nodes[].id", index))
                       ELSE warnings
         IN  IF node_id \in node_ids THEN Raised("DUPLICATE_NODE_ID")
             ELSE LET converted == convert_v2_node(node, node_id, index)
                  IN  IF converted.raised # "" THEN converted
                      ELSE ConvertNodes(nodes, index + 1, node_ids \cup {node_id},
                                        Append(v3_nodes, converted.value),
                                        warned \o converted.warnings)

\* _derive_entrypoints, the loop that collects start_targets
RECURSIVE StartTargets(_, _, _)
StartTargets(edges, node_ids, start_targets) ==
    IF edges = <<>> THEN start_targets
    ELSE LET edge == Head(edges)
         IN  StartTargets(Tail(edges), node_ids,
                 IF /\ edge.from_node = "START"
                    /\ edge.to_node \in node_ids
                    /\ edge.to_node \notin Range(start_targets)
                 THEN Append(start_targets, edge.to_node)
                 ELSE start_targets)

\* _derive_entrypoints.  "if config_v2.entry_point" is false for None and "".
derive_entrypoints(config_v2, node_ids) ==
    LET set == config_v2.entry_point \notin {None, ""}
        fallback == IF set /\ config_v2.entry_point \notin node_ids
                    THEN <<Warning("INVALID_ENTRYPOINT_FALLBACK", "entry_point", -1)>>
                    ELSE <<>>
        start_targets == StartTargets(config_v2.edges, node_ids, <<>>)
    IN  IF set /\ config_v2.entry_point \in node_ids
        THEN Returned(<<config_v2.entry_point>>, <<>>)
        ELSE IF start_targets # <<>>
        THEN Returned(<<start_targets[1]>>,
                      IF Len(start_targets) > 1
                      THEN Append(fallback,
                                  Warning("MULTIPLE_START_TARGETS_PICK_FIRST", "edges", -1))
                      ELSE fallback)
        ELSE Returned(<<config_v2.nodes[1].id>>,
                      Append(fallback,
                             Warning("MISSING_ENTRYPOINT_FALLBACK", "entry_point", -1)))

\* the guard of a v3 edge made from a legacy condition that is not None
ConvertedWhen(condition) ==
    IF condition.type = "builtin" /\ condition.cond = "has_tool_calls"
    THEN WhenBuiltin(HAS_TOOL_CALLS)
    ELSE IF condition.type = "builtin" THEN WhenBuiltin(NO_TOOL_CALLS)
    ELSE EdgePredicate(condition.state_key, condition.operator, condition.value)

\* _convert_v2_edges, the loop over edges from position index (0-based)
RECURSIVE ConvertEdges(_, _, _, _, _)
ConvertEdges(edges, index, node_ids, converted, warnings) ==
    IF index >= Len(edges) THEN Returned(converted, warnings)
    ELSE LET edge == edges[index + 1]
             drop(code, path) ==
                 ConvertEdges(edges, index + 1, node_ids, converted,
                              Append(warnings, Warning(code, path, index)))
         IN  IF edge.from_node = "START"
             THEN ConvertEdges(edges, index + 1, node_ids, converted, warnings)
             ELSE IF edge.from_node = "END"
             THEN drop("EDGE_FROM_END_DROPPED", "edges[]")
             ELSE IF edge.to_node = "START"
             THEN drop("EDGE_TO_START_DROPPED", "edges[]")
             ELSE IF edge.from_node \notin node_ids
             THEN drop("EDGE_SOURCE_MISSING_DROPPED", "edges[].from_node")
             ELSE IF edge.to_node # "END" /\ edge.to_node \notin node_ids
             THEN drop("EDGE_TARGET_MISSING_DROPPED", "edges[].to_node")
             ELSE IF edge.condition.type = "custom" /\ edge.condition.state_key = ""
             THEN Raised("MISSING_PREDICATE_STATE_KEY")
             ELSE ConvertEdges(edges, index + 1, node_ids,
                      Append(converted,
                             GraphEdgeConfig(edge.from_node, edge.to_node,
                                 IF edge.condition.type = "none" THEN WhenNone
                                 ELSE ConvertedWhen(edge.condition),
                                 edge.priority, edge.label)),
                      warnings)

\* a rewrite that starts at the second edge
convert_v2_edges_from_second(edges, node_ids) == ConvertEdges(edges, 1, node_ids, <<>>, <<>>)

\* _convert_v2_edges
convert_v2_edges(edges, node_ids) == ConvertEdges(edges, 0, node_ids, <<>>, <<>>)

\* _extract_limits: metadata.limits.max_steps when it is an int, else 128
DefaultMaxSteps == 128

extract_limits(config_v2) ==
    [max_time_s |-> config_v2.max_execution_time_seconds,
     max_steps |-> IF config_v2.max_steps = <<>> THEN DefaultMaxSteps
                   ELSE config_v2.max_steps[1]]

\* the body of a payload that has no graph / state / limits keys
NoV3Body ==
    [graph |-> [nodes |-> <<>>, edges |-> <<>>, entrypoints |-> <<>>],
     state |-> [key |-> "", schema |-> {}],
     limits |-> [max_time_s |-> -1, max_steps |-> -1]]

\* the body of a payload that has no nodes / edges / entry_point keys
NoV2Body ==
    [nodes |-> <<>>, edges |-> <<>>, entry_point |-> None, custom_state_fields |-> {},
     max_steps |-> <<>>, max_execution_time_seconds |-> -1]

\* a raw payload (dict): its schema_version and version keys (<<>> when
\* absent) and its body, in the v3 shape (graph, state, limits) or in the
\* v1/v2 shape (nodes, edges, entry_point)
RawPayload(schema_version, version, shape, v3, v2) ==
    [schema_version |-> schema_version, version |-> version, shape |-> shape,
     v3 |-> v3, v2 |-> v2]

NoPayload == RawPayload(<<>>, <<>>, "", NoV3Body, NoV2Body)

\* _convert_v2_to_v3_raw: the payload dict it builds
convert_v2_to_v3_raw(config_v2) ==
    LET nodes == ConvertNodes(config_v2.nodes, 0, {}, <<>>, <<>>)
    IN  IF nodes.raised # "" THEN nodes
        ELSE IF nodes.value[2] = <<>> THEN Raised("EMPTY_GRAPH")
        ELSE LET node_ids == nodes.value[1]
                 entrypoints == derive_entrypoints(config_v2, node_ids)
                 edges == convert_v2_edges(config_v2.edges, node_ids)
             IN  IF edges.raised # "" THEN edges
                 ELSE LET defaulted == edges.value = <<>>
                          v3_edges ==
                              IF defaulted
                              THEN <<GraphEdgeConfig(entrypoints.value[1], "END", WhenNone,
                                                     0, NoLabel)>>
                              ELSE edges.value
                          warnings ==
                              nodes.warnings \o entrypoints.warnings \o edges.warnings
                              \o (IF defaulted
                                  THEN <<Warning("NO_EDGES_DEFAULTED_TO_END", "edges", -1)>>
                                  ELSE <<>>)
                      IN  Returned(
                              RawPayload(SCHEMA_VERSION_3_0, <<>>, "v3",
                                  [graph |-> [nodes |-> nodes.value[2], edges |-> v3_edges,
                                              entrypoints |-> entrypoints.value],
                                   state |-> [key |-> "schema",
                                              schema |-> config_v2.custom_state_fields],
                                   limits |-> extract_limits(config_v2)],
                                  NoV2Body),
                              warnings)

\* detect_graph_config_version
detect_graph_config_version(raw_config) ==
    IF raw_config.schema_version # <<>> THEN raw_config.schema_version
    ELSE IF raw_config.version # <<>> THEN raw_config.version
    ELSE SchemaVersion("1", "0")

\* _is_explicit_empty_graph
is_explicit_empty_graph(raw_config) ==
    \/ raw_config.shape = "v2" /\ raw_config.v2.nodes = <<>>
    \/ raw_config.shape = "v3" /\ raw_config.v3.graph.nodes = <<>>

\* the GraphConfig that GraphConfig.model_validate builds from a payload it
\* accepts; schema_version defaults to "3.0"
ConfigOf(raw_config) ==
    [schema_version |-> IF raw_config.schema_version = <<>> THEN SCHEMA_VERSION_3_0
                        ELSE raw_config.schema_version,
     nodes |-> raw_config.v3.graph.nodes,
     edges |-> raw_config.v3.graph.edges,
     entrypoints |-> raw_config.v3.graph.entrypoints,
     schema |-> raw_config.v3.state.schema,
     max_steps |-> raw_config.v3.limits.max_steps,
     max_time_s |-> raw_config.v3.limits.max_time_s]

\* a schema without populate_by_name: state.schema is read under its alias only
PayloadAcceptedByAliasOnly(raw_config) ==
    /\ raw_config.shape = "v3"
    /\ raw_config.version = <<>>
    /\ raw_config.v3.state.key = "schema"
    /\ ParseAccepts(ConfigOf(raw_config))

\* parse_graph_config accepts the payload: the schema forbids extra keys
\* (version, nodes, ...), requires graph, and reads state.schema under its
\* alias "schema" or, by populate_by_name, under "state_schema"
PayloadAccepted(raw_config) ==
    /\ raw_config.shape = "v3"
    /\ raw_config.version = <<>>
    /\ raw_config.v3.state.key \in {"schema", "state_schema"}
    /\ ParseAccepts(ConfigOf(raw_config))

\* GraphConfig.model_dump(): field names, not aliases
model_dump(c) ==
    RawPayload(c.schema_version, <<>>, "v3",
        [graph |-> [nodes |-> c.nodes, edges |-> c.edges, entrypoints |-> c.entrypoints],
         state |-> [key |-> "state_schema", schema |-> c.schema],
         limits |-> [max_time_s |-> c.max_time_s, max_steps |-> c.max_steps]],
        NoV2Body)

\* NodeType of the legacy schema
NodeTypes == {"llm", "tool", "transform", "component"}

\* LegacyGraphConfig.model_validate accepts the payload
LegacyAccepted(raw_config) ==
    /\ raw_config.shape = "v2"
    /\ \A i \in 1..Len(raw_config.v2.nodes) : raw_config.v2.nodes[i].type \in NodeTypes

\* migrate_graph_config (legacy v1 -> v2 transformer): the results it can
\* give for a payload, an exception ("raised") or a legacy config
migrate_graph_config(raw_config) ==
    {Raised("INVALID_V1_CONFIG")}
    \cup (IF LegacyAccepted(raw_config) THEN {Returned(raw_config.v2, <<>>)} ELSE {})

\* GraphConfigMigrationResult / GraphConfigMigrationError: the outcome of one
\* call of upgrade_graph_config
MigrationResult(source_version, c, warnings, v3_raw) ==
    [raised |-> "", source_version |-> source_version, config |-> c,
     warnings |-> warnings, config_v3_raw |-> v3_raw]

MigrationError(code, v3_raw) ==
    [raised |-> code, source_version |-> <<>>, config |-> NoConfig,
     warnings |-> <<>>, config_v3_raw |-> v3_raw]

\* a migration that returns the parsed config without canonicalizing it
ParseAndValidateOnly(payload, code, source_version, warnings, v3_raw) ==
    IF ~PayloadAccepted(payload) THEN {MigrationError(code, v3_raw)}
    ELSE LET canonical_v3 == canonicalize_graph_config(ConfigOf(payload))
         IN  {IF ensure_valid_raises(validate_graph_config(canonical_v3, cyc))
              THEN MigrationError(code, v3_raw)
              ELSE MigrationResult(source_version, ConfigOf(payload), warnings, v3_raw) :
                 cyc \in CycleResults(canonical_v3)}

\* upgrade_graph_config, the try block of both branches: parse, canonicalize,
\* ensure_valid; ValidationError and ValueError become the given code
ParseCanonicalizeValidate(payload, code, source_version, warnings, v3_raw) ==
    IF ~PayloadAccepted(payload) THEN {MigrationError(code, v3_raw)}
    ELSE LET canonical_v3 == canonicalize_graph_config(ConfigOf(payload))
         IN  {IF ensure_valid_raises(validate_graph_config(canonical_v3, cyc))
              THEN MigrationError(code, v3_raw)
              ELSE MigrationResult(source_version, canonical_v3, warnings, v3_raw) :
                 cyc \in CycleResults(canonical_v3)}

\* upgrade_graph_config from the conversion of config_v2 on
ConvertAndValidate(config_v2, source_version, warnings) ==
    LET converted == convert_v2_to_v3_raw(config_v2)
    IN  IF converted.raised # "" THEN {MigrationError(converted.raised, NoPayload)}
        ELSE ParseCanonicalizeValidate(converted.value, "INVALID_MIGRATED_V3_CONFIG",
                 source_version, warnings \o converted.warnings, converted.value)

\* upgrade_graph_config: the outcomes of one call
upgrade_graph_config(raw_config) ==
    LET source_version == detect_graph_config_version(raw_config)
    IN  IF StartsWith(source_version, <<"3", ".">>)
        THEN ParseCanonicalizeValidate(raw_config, "INVALID_V3_CONFIG", source_version,
                                       <<>>, NoPayload)
        ELSE IF is_explicit_empty_graph(raw_config)
        THEN {MigrationError("EMPTY_GRAPH", NoPayload)}
        ELSE IF StartsWith(source_version, <<"2", ".">>)
        THEN IF ~LegacyAccepted(raw_config)
             THEN {MigrationError("INVALID_V2_CONFIG", NoPayload)}
             ELSE ConvertAndValidate(raw_config.v2, source_version, <<>>)
        ELSE LET unknown ==
                     IF ~StartsWith(source_version, <<"1", ".">>)
                     THEN <<Warning("UNKNOWN_VERSION_TREATED_AS_V1",
                                    "graph_config.version", -1)>>
                     ELSE <<>>
             IN  UNION {IF migrated.raised # ""
                        THEN {MigrationError("INVALID_V1_CONFIG", NoPayload)}
                        ELSE ConvertAndValidate(migrated.value, source_version,
                                 Append(unknown,
                                        Warning("UPGRADED_V1_TO_V2",
                                                "graph_config.version", -1))) :
                           migrated \in migrate_graph_config(raw_config)}

----------------------------------------------------------------------------
(* agents/builtin/react.py, agents/builtin/deep_research.py *)

\* REACT_CONFIG, the payload handed to parse_graph_config
REACT_CONFIG ==
    [schema_version |-> SCHEMA_VERSION_3_0,
     nodes |-> <<GraphNode("agent"), GraphNodeOfKind("tools", "tool")>>,
     edges |-> <<GraphEdgeConfig("agent", "tools", WhenBuiltin(HAS_TOOL_CALLS), 0, NoLabel),
                 GraphEdgeConfig("agent", "END", WhenBuiltin(NO_TOOL_CALLS), 0, NoLabel),
                 GraphEdgeConfig("tools", "agent", WhenNone, 0, NoLabel)>>,
     entrypoints |-> <<"agent">>,
     schema |-> {},
     max_steps |-> 128, max_time_s |-> 300]

\* the deep research payload with the entrypoint "clarify" whatever
\* allow_clarification is
deep_research_always_clarify(allow_clarification) ==
    [schema_version |-> SCHEMA_VERSION_3_0,
     nodes |-> (IF allow_clarification THEN <<GraphNodeOfKind("clarify", "component")>> ELSE <<>>)
               \o <<GraphNodeOfKind("brief", "component"), GraphNodeOfKind("supervisor", "component"), GraphNodeOfKind("final_report", "component")>>,
     edges |-> (IF allow_clarification
                THEN <<GraphEdgeConfig("clarify", "END",
                           EdgePredicate("need_clarification", "truthy", "null"), 2,
                           "Ask clarifying question"),
                       GraphEdgeConfig("clarify", "END",
                           EdgePredicate("skip_research", "truthy", "null"), 1,
                           "Handle follow-up directly"),
                       GraphEdgeConfig("clarify", "brief",
                           EdgePredicate("need_clarification", "falsy", "null"), 0,
                           "Proceed to research")>>
                ELSE <<>>)
               \o <<GraphEdgeConfig("brief", "supervisor", WhenNone, 0, NoLabel),
                    GraphEdgeConfig("supervisor", "final_report", WhenNone, 0, NoLabel),
                    GraphEdgeConfig("final_report", "END", WhenNone, 0, NoLabel)>>,
     entrypoints |-> <<"clarify">>,
     schema |-> {"research_brief", "notes", "final_report", "need_clarification",
                 "skip_research"},
     max_steps |-> 256, max_time_s |-> 600]

\* create_deep_research_config(allow_clarification=...), the payload handed
\* to parse_graph_config
create_deep_research_config(allow_clarification) ==
    LET entrypoint == IF allow_clarification THEN "clarify" ELSE "brief"
        clarify_nodes ==
            IF allow_clarification THEN <<GraphNodeOfKind("clarify", "component")>> ELSE <<>>
        clarify_edges ==
            IF allow_clarification
            THEN <<GraphEdgeConfig("clarify", "END",
                       EdgePredicate("need_clarification", "truthy", "null"), 2,
                       "Ask clarifying question"),
                   GraphEdgeConfig("clarify", "END",
                       EdgePredicate("skip_research", "truthy", "null"), 1,
                       "Handle follow-up directly"),
                   GraphEdgeConfig("clarify", "brief",
                       EdgePredicate("need_clarification", "falsy", "null"), 0,
                       "Proceed to research")>>
            ELSE <<>>
    IN  [schema_version |-> SCHEMA_VERSION_3_0,
         nodes |-> clarify_nodes
                   \o <<GraphNodeOfKind("brief", "component"), GraphNodeOfKind("supervisor", "component"),
                        GraphNodeOfKind("final_report", "component")>>,
         edges |-> clarify_edges
                   \o <<GraphEdgeConfig("brief", "supervisor", WhenNone, 0, NoLabel),
                        GraphEdgeConfig("supervisor", "final_report", WhenNone, 0, NoLabel),
                        GraphEdgeConfig("final_report", "END", WhenNone, 0, NoLabel)>>,
         entrypoints |-> <<entrypoint>>,
         schema |-> {"research_brief", "notes", "final_report", "need_clarification",
                     "skip_research"},
         max_steps |-> 256, max_time_s |-> 600]

\* the builtin payloads: react, and deep research for both values of
\* allow_clarification
BuiltinPayloads ==
    {REACT_CONFIG} \cup {create_deep_research_config(allow) : allow \in BOOLEAN}

----------------------------------------------------------------------------
(* agents/factory.py: _inject_system_prompt.  A str is the sequence of its    *)
(* characters, with the two tags of the layered prompt as single elements.    *)
(* Every dict and list carries the name of its owner: "caller" for an object  *)
(* of the caller's config, "copy" for a copy made by the call and "new" for   *)
(* a dict the call created.                                                    *)

\* str.strip()
RECURSIVE StripLeft(_)
StripLeft(text) ==
    IF text # <<>> /\ Head(text) \in {" ", "\n"} THEN StripLeft(Tail(text)) ELSE text

RECURSIVE StripRight(_)
StripRight(text) ==
    IF text # <<>> /\ text[Len(text)] \in {" ", "\n"}
    THEN StripRight(SubSeq(text, 1, Len(text) - 1))
    ELSE text

StripText(text) == StripRight(StripLeft(text))

\* the value under a key: the key is missing, holds a non-str, or holds a str
Absent == [kind |-> "absent", text |-> <<>>]
NotStr == [kind |-> "none", text |-> <<>>]
Str(text) == [kind |-> "str", text |-> text]

\* merge_layered_prompt
merge_layered_prompt(base_prompt, node_prompt) ==
    LET base == StripText(base_prompt)
        node == IF node_prompt.kind = "str" THEN StripText(node_prompt.text) ELSE <<>>
    IN  IF base # <<>> /\ node # <<>>
        THEN base \o <<"\n", "\n", "<NODE_PROMPT>", "\n">> \o node
                  \o <<"\n", "</NODE_PROMPT>">>
        ELSE IF base # <<>> THEN base
        ELSE node

\* config_overrides of a component config: missing, not a dict, or a dict
Overrides(kind, system_prompt) ==
    [kind |-> kind, owner |-> "caller", system_prompt |-> system_prompt]

\* llm_config / component_config (v2) or config (v3) of a node
NodeConfig(kind, prompt_template, config_overrides) ==
    [kind |-> kind, owner |-> "caller", prompt_template |-> prompt_template,
     config_overrides |-> config_overrides]

\* a node dict: shape "v2" carries its kind under "type", "v3" under "kind"
NodeDict(shape, tag, cfg) ==
    [owner |-> "caller", shape |-> shape, tag |-> tag, cfg |-> cfg]

\* a config dict: shape "v2" has the list under "nodes", "v3" under
\* graph.nodes, "none" has no node list
ConfigDict(shape, nodes) ==
    [owner |-> "caller", shape |-> shape, graph_owner |-> "caller",
     list_owner |-> "caller", nodes |-> nodes]

NoDict == ConfigDict("", <<>>)

CopyOverrides(ov) == [ov EXCEPT !.owner = "copy"]
CopyNodeConfig(cfg) ==
    [cfg EXCEPT !.owner = "copy", !.config_overrides = CopyOverrides(cfg.config_overrides)]
CopyNode(node) == [node EXCEPT !.owner = "copy", !.cfg = CopyNodeConfig(node.cfg)]

\* dict(config_dict): a copy of the outer dict alone
shallowcopy(c) == [c EXCEPT !.owner = "copy"]

\* copy.deepcopy(config_dict): every dict and list is a new object
deepcopy(c) ==
    [c EXCEPT !.owner = "copy", !.graph_owner = "copy", !.list_owner = "copy",
              !.nodes = [i \in 1..Len(c.nodes) |-> CopyNode(c.nodes[i])]]

\* d.setdefault(key, {}): the value under the key, a new dict when missing
setdefault(value) ==
    IF value.kind = "absent" THEN [value EXCEPT !.kind = "dict", !.owner = "new"] ELSE value

\* the component branch of the loop
inject_component(cfg, system_prompt) ==
    LET comp_config == setdefault(cfg)
        overrides == setdefault(comp_config.config_overrides)
    IN  IF comp_config.kind # "dict" THEN comp_config
        ELSE IF overrides.kind # "dict"
        THEN [comp_config EXCEPT !.config_overrides = overrides]
        ELSE [comp_config EXCEPT !.config_overrides =
                [overrides EXCEPT !.system_prompt =
                    Str(merge_layered_prompt(system_prompt, overrides.system_prompt))]]

\* the llm branch of the loop
inject_llm(cfg, system_prompt) ==
    LET llm_config == setdefault(cfg)
    IN  IF llm_config.kind # "dict" THEN llm_config
        ELSE [llm_config EXCEPT !.prompt_template =
                Str(merge_layered_prompt(system_prompt, llm_config.prompt_template))]

\* the body of the loop over node_list: the v2 branches on "type" and the
\* canonical branches on "kind" differ in the key of the node config only
inject_node(node, system_prompt) ==
    IF node.tag = "component"
    THEN [node EXCEPT !.cfg = inject_component(node.cfg, system_prompt)]
    ELSE IF node.tag = "llm"
    THEN [node EXCEPT !.cfg = inject_llm(node.cfg, system_prompt)]
    ELSE node

\* a loop that stops after the first node it injected into
RECURSIVE inject_first_node(_, _)
inject_first_node(node_list, system_prompt) ==
    IF node_list = <<>> THEN <<>>
    ELSE IF Head(node_list).tag \in {"llm", "component"}
    THEN <<inject_node(Head(node_list), system_prompt)>> \o Tail(node_list)
    ELSE <<Head(node_list)>> \o inject_first_node(Tail(node_list), system_prompt)

\* for node in node_list or []
inject_nodes(node_list, system_prompt) ==
    [i \in 1..Len(node_list) |-> inject_node(node_list[i], system_prompt)]

\* _inject_system_prompt: the dict it returns
inject_system_prompt(c, system_prompt) ==
    LET copied == deepcopy(c)
    IN  IF copied.shape \in {"v2", "v3"}
        THEN [copied EXCEPT !.nodes = inject_nodes(copied.nodes, system_prompt)]
        ELSE copied

\* What the caller finds in its own dict after the call: an object the
\* returned dict shares with it shows what the call wrote into it.
SeenOverrides(before, after) == IF after.owner = "caller" THEN after ELSE before

SeenNodeConfig(before, after) ==
    IF after.owner = "caller" THEN after
    ELSE [before EXCEPT !.config_overrides =
            SeenOverrides(before.config_overrides, after.config_overrides)]

SeenNode(before, after) ==
    IF after.owner = "caller" THEN after
    ELSE [before EXCEPT !.cfg = SeenNodeConfig(before.cfg, after.cfg)]

SeenByCaller(before, after) ==
    IF after.owner = "caller" THEN after
    ELSE [before EXCEPT !.nodes =
            IF after.list_owner = "caller" THEN after.nodes
            ELSE [i \in 1..Len(before.nodes) |-> SeenNode(before.nodes[i], after.nodes[i])]]

----------------------------------------------------------------------------
(* agents/components/__init__.py: ComponentRegistry.  A version string is   *)
(* what packaging.version.Version makes of it: a release of three numbers,  *)
(* or a text Version() rejects with InvalidVersion.                          *)

VersionText(ok, major, minor, patch) ==
    [ok |-> ok, major |-> major, minor |-> minor, patch |-> patch]

InvalidVersionText == VersionText(FALSE, 0, 0, 0)

\* packaging: Version.__lt__ on releases
VersionLt(v, w) ==
    \/ v.major < w.major
    \/ v.major = w.major /\ v.minor < w.minor
    \/ v.major = w.major /\ v.minor = w.minor /\ v.patch < w.patch

VersionLeq(v, w) == v = w \/ VersionLt(v, w)

\* ComponentMetadata: key and version
Component(key, version) == [key |-> key, version |-> version]

NoComponent == Component("", InvalidVersionText)

\* the keys the registry is explored with: the five built-in ones and one more
BuiltinKeys ==
    <<"react", "deep_research:clarify", "deep_research:brief",
      "deep_research:supervisor", "deep_research:final_report">>

ComponentKeys == Range(BuiltinKeys) \cup {"custom"}

\* ReActComponent(), ClarifyWithUserComponent(), ResearchBriefComponent(),
\* ResearchSupervisorComponent(), FinalReportComponent(), in registration order
BuiltinComponents ==
    [i \in 1..Len(BuiltinKeys) |-> Component(BuiltinKeys[i], VersionText(TRUE, 2, 0, 0))]

\* a register that refuses an existing key whatever override says
register_raises_on_existing(registry, component, override) ==
    registry[component.key] # NoComponent

\* ComponentRegistry.register raises ValueError
register_raises(registry, component, override) ==
    registry[component.key] # NoComponent /\ ~override

\* ComponentRegistry.register: the registry after a call that returns
register(registry, component) ==
    [registry EXCEPT ![component.key] = component]

\* a version constraint: the characters in front of the version text
\* ("*", "^", "~", "~=", a specifier operator, or none) and the text
Constraint(prefix, text) == [prefix |-> prefix, text |-> text]

Wildcard == Constraint("*", InvalidVersionText)

SpecifierOperators == {"==", "!=", ">=", "<=", ">", "<"}

\* packaging: Specifier.contains for one clause on releases
Satisfies(version, operator, base) ==
    CASE operator = "==" -> version = base
      [] operator = "!=" -> version # base
      [] operator = ">=" -> VersionLeq(base, version)
      [] operator = "<=" -> VersionLeq(version, base)
      [] operator = ">" -> VersionLt(base, version)
      [] OTHER -> VersionLt(version, base)

\* the try block of resolve raises: Version(component.metadata.version),
\* Version(base_version) or SpecifierSet(version_constraint) rejects its text
resolve_raises(component, constraint) ==
    \/ ~component.version.ok
    \/ IF constraint.prefix = "^" THEN ~constraint.text.ok
       ELSE IF constraint.prefix \in {"~", "~="}
       THEN constraint.prefix = "~=" \/ ~constraint.text.ok
       ELSE constraint.prefix \notin SpecifierOperators \/ ~constraint.text.ok

\* a caret range that ends at the next minor version
caret_upto_next_minor(version, base) ==
    /\ VersionLeq(base, version)
    /\ VersionLt(version, VersionText(TRUE, base.major, base.minor + 1, 0))

\* comp_version in SpecifierSet(f">={base_version},<{base.major + 1}.0.0")
caret_matches(version, base) ==
    /\ VersionLeq(base, version)
    /\ VersionLt(version, VersionText(TRUE, base.major + 1, 0, 0))

\* comp_version in SpecifierSet(f">={base_version},<{base.major}.{base.minor + 1}.0")
tilde_matches(version, base) ==
    /\ VersionLeq(base, version)
    /\ VersionLt(version, VersionText(TRUE, base.major, base.minor + 1, 0))

\* ComponentRegistry.resolve: the component, or NoComponent for None
resolve(registry, key, constraint) ==
    LET component == registry[key]
    IN  IF component = NoComponent THEN NoComponent
        ELSE IF constraint = Wildcard THEN component
        ELSE IF resolve_raises(component, constraint) THEN component
        ELSE IF constraint.prefix = "^"
        THEN IF caret_matches(component.version, constraint.text)
             THEN component ELSE NoComponent
        ELSE IF constraint.prefix = "~"
        THEN IF tilde_matches(component.version, constraint.text)
             THEN component ELSE NoComponent
        ELSE IF Satisfies(component.version, constraint.prefix, constraint.text)
             THEN component ELSE NoComponent

NoResolve == [key |-> "", constraint |-> Wildcard]

\* a call of register: its arguments and how it ended
Registered(component, override, outcome) ==
    [component |-> component, override |-> override, outcome |-> outcome]

NoRegister == Registered(NoComponent, FALSE, "")

\* a call that registers again although the flag is set
ensure_registers_always(registered) == TRUE

\* ensure_components_registered: "if _components_registered: return"
ensure_registers(registered) == ~registered

----------------------------------------------------------------------------
(* The runtime (spec section 4.6): the scheduler loop over a compiled graph *)

\* the values of the state paths the guards of the explored graphs read
NoState == [p |-> ""]

\* truthy / falsy read a state value as a boolean: empty and zero are falsy
Truthy(value) == value \notin {"", "0", "null", "false"}

\* a guard of a compiled edge holds in the state; has_tool_calls says whether
\* the latest message carries tool calls
GuardHolds(condition, state, has_tool_calls) ==
    IF condition.type = "none" THEN TRUE
    ELSE IF condition.type = "builtin"
    THEN IF condition.cond = "has_tool_calls" THEN has_tool_calls ELSE ~has_tool_calls
    ELSE LET value == state[condition.state_key]
         IN  CASE condition.operator = "truthy" -> Truthy(value)
               [] condition.operator = "falsy" -> ~Truthy(value)
               [] condition.operator = "eq" -> value = condition.value
               [] OTHER -> value # condition.value

\* the router of a node: its outgoing edges in compiled order (priority
\* descending, then canonical order); the first edge whose guard holds wins.
\* The value is the set of selected targets: one, or none when no guard holds.
Router(graph, node, state, has_tool_calls) ==
    LET outgoing == {i \in 1..Len(graph.edges) :
                        /\ graph.edges[i].from_node = node
                        /\ GuardHolds(graph.edges[i].condition, state, has_tool_calls)}
    IN  IF outgoing = {} THEN {}
        ELSE {graph.edges[CHOOSE i \in outgoing : \A j \in outgoing : i <= j].to_node}

\* a loop head that looks at the frontier before the cancellation signal
LoopExitCompletionFirst(cancelled, pending, steps, time, graph) ==
    IF pending = {} THEN "completed"
    ELSE IF cancelled THEN "cancelled"
    ELSE IF steps >= graph.max_steps \/ time >= graph.max_execution_time_seconds
    THEN "limit_exceeded"
    ELSE ""

\* the exit the loop takes before a batch: cancellation, completion (empty
\* frontier), a limit, or "" when the next batch may start
LoopExit(cancelled, pending, steps, time, graph) ==
    IF cancelled THEN "cancelled"
    ELSE IF pending = {} THEN "completed"
    ELSE IF steps >= graph.max_steps \/ time >= graph.max_execution_time_seconds
    THEN "limit_exceeded"
    ELSE ""

----------------------------------------------------------------------------
(* The payloads handed to parse_graph_config.  Three families are explored: *)
(* topology (every endpoint name, unguarded edges, every limit), routing    *)
(* (every guard on the edges of real nodes) and ordering (priorities and    *)
(* labels on a small graph).                                                *)

NodeIdPool == <<"a", "b", "c", "d">>
NodeIds == {NodeIdPool[i] : i \in 1..MaxNodes}

SeqsUpTo(S, n) == UNION {[1..k -> S] : k \in 0..n}
DistinctSeqsUpTo(S, n) == {q \in SeqsUpTo(S, n) : Cardinality(Range(q)) = Len(q)}

\* A family of payloads: the lists and the edge fields it draws from
Family(nodeLists, entryLists, sources, targets, guards, priorities, labels, schemas, limits) ==
    [nodeLists |-> nodeLists, entryLists |-> entryLists,
     edgeSet |-> {GraphEdgeConfig(f, t, w, p, l) :
                    f \in sources, t \in targets, w \in guards,
                    p \in priorities, l \in labels},
     schemas |-> schemas, limits |-> limits]

Payload(ns, es, en, sc, lim) ==
    [schema_version |-> SCHEMA_VERSION_3_0,
     nodes |-> [i \in 1..Len(ns) |-> GraphNode(ns[i])],
     edges |-> es, entrypoints |-> en, schema |-> sc,
     max_steps |-> lim[1], max_time_s |-> lim[2]]

PredP == EdgePredicate("p", "truthy", "null")
PredQ == EdgePredicate("p", "eq", "1")
PredMessages == EdgePredicate("messages", "truthy", "null")

TopologyPayloads ==
    Family(SeqsUpTo(NodeIds, MaxNodes), SeqsUpTo(NodeIds, MaxEntrypoints),
           NodeIds \cup {"START", "END"}, NodeIds \cup {"START", "END"},
           {WhenNone}, {0}, {NoLabel}, {{}},
           {<<1, 1>>, <<0, 1>>, <<1, 0>>, <<0, 0>>})

RoutingPayloads ==
    Family({[i \in 1..k |-> NodeIdPool[i]] : k \in 0..MaxNodes}, {<<"a">>},
           NodeIds, NodeIds \cup {"END"},
           {WhenNone, WhenBuiltin(HAS_TOOL_CALLS), WhenBuiltin(NO_TOOL_CALLS),
            PredP, PredMessages},
           {0}, {NoLabel}, {{}, {"p"}},
           {<<1, 1>>, <<0, 1>>, <<1, 0>>, <<0, 0>>})

OrderingPayloads ==
    Family({q \in DistinctSeqsUpTo(NodeIds, MaxNodes) : Len(q) = MaxNodes},
           DistinctSeqsUpTo(NodeIds, MaxEntrypoints) \ {<<>>},
           {"a", "b"}, {"b", "END"},
           {WhenNone, PredP, PredQ},
           {0, 1}, {"x", "y"}, {{"p"}}, {<<1, 1>>})

Families == {TopologyPayloads, RoutingPayloads, OrderingPayloads}

----------------------------------------------------------------------------
(* The pipeline *)

Init ==
    /\ pc = "idle"
    /\ config = NoConfig
    /\ reordered = NoConfig
    /\ canonical = NoConfig
    /\ canonical_other = NoConfig
    /\ recanonical = NoConfig
    /\ errors = <<>>
    /\ canonical_errors = <<>>
    /\ compiler_config = NoConfig
    /\ builder = NoBuilder
    /\ upc = "idle"
    /\ raw_input = NoPayload
    /\ source_config = NoConfig
    /\ migration = MigrationError("", NoPayload)
    /\ rpc = "idle"
    /\ run_state = NoState
    /\ frontier = {}
    /\ batch = {}
    /\ step_count = 0
    /\ elapsed = 0
    /\ cancel_signal = FALSE
    /\ merged = <<>>
    /\ exit_condition = ""
    /\ returned_state = <<>>
    /\ ipc = "idle"
    /\ config_dict = NoDict
    /\ inject_input = NoDict
    /\ inject_prompt = <<>>
    /\ injected = NoDict
    /\ components = [k \in ComponentKeys |-> NoComponent]
    /\ components_registered = FALSE
    /\ epc = 0
    /\ ensure_outcome = ""
    /\ register_outcome = NoRegister
    /\ last_registered = [k \in ComponentKeys |-> NoComponent]
    /\ outside_registered = FALSE
    /\ failed_midway = FALSE
    /\ resolve_args = NoResolve
    /\ resolved = NoComponent

\* parse_graph_config(raw): GraphConfig.model_validate raises on a payload
\* the schema rejects, and returns the typed config otherwise
Parse ==
    /\ pc = "idle"
    /\ \E fam \in Families :
       \E ns \in fam.nodeLists, en \in fam.entryLists, k \in 0..MaxEdges,
          sc \in fam.schemas, lim \in fam.limits :
       \E es \in [1..k -> fam.edgeSet] :
       LET raw == Payload(ns, es, en, sc, lim) IN
          IF ParseAccepts(raw)
          THEN /\ config' = raw
               /\ pc' = "parsed"
          ELSE /\ config' = NoConfig
               /\ pc' = "rejected"
    /\ UNCHANGED <<reordered, canonical, canonical_other, recanonical, errors,
                   canonical_errors>>
    /\ UNCHANGED outsidePipeline

\* a builtin module is imported: parse_graph_config on its payload
LoadBuiltin ==
    /\ pc = "idle"
    /\ \E raw \in BuiltinPayloads :
          IF ParseAccepts(raw)
          THEN /\ config' = raw
               /\ pc' = "parsed"
          ELSE /\ config' = NoConfig
               /\ pc' = "rejected"
    /\ UNCHANGED <<reordered, canonical, canonical_other, recanonical, errors,
                   canonical_errors>>
    /\ UNCHANGED outsidePipeline

\* errors = validate_graph_config(config)
Validate ==
    /\ pc = "parsed"
    /\ \E cyc \in CycleResults(config) :
          errors' = validate_graph_config(config, cyc)
    /\ pc' = "validated"
    /\ UNCHANGED <<config, reordered, canonical, canonical_other, recanonical,
                   canonical_errors>>
    /\ UNCHANGED outsidePipeline

\* canonical = canonicalize_graph_config(config)
Canonicalize ==
    /\ pc = "validated"
    /\ canonical' = canonicalize_graph_config(config)
    /\ pc' = "canonical"
    /\ UNCHANGED <<config, reordered, canonical_other, recanonical, errors,
                   canonical_errors>>
    /\ UNCHANGED outsidePipeline

\* validate_graph_config(canonical), as GraphCompiler and the factory call it
ValidateCanonical ==
    /\ pc = "canonical"
    /\ \E cyc \in CycleResults(canonical) :
          canonical_errors' = validate_graph_config(canonical, cyc)
    /\ pc' = "canonical_validated"
    /\ UNCHANGED <<config, reordered, canonical, canonical_other, recanonical, errors>>
    /\ UNCHANGED outsidePipeline

\* canonicalize_graph_config applied to its own result
Recanonicalize ==
    /\ pc = "canonical_validated"
    /\ recanonical' = canonicalize_graph_config(canonical)
    /\ pc' = "recanonical"
    /\ UNCHANGED <<config, reordered, canonical, canonical_other, errors,
                   canonical_errors>>
    /\ UNCHANGED outsidePipeline

\* the payload of config with two neighbours of one list exchanged
SwapAt(q, i) == [q EXCEPT ![i] = q[i + 1], ![i + 1] = q[i]]

Reorderings(c) ==
    {[c EXCEPT !.nodes = SwapAt(c.nodes, i)] : i \in 1..(Len(c.nodes) - 1)}
    \cup {[c EXCEPT !.edges = SwapAt(c.edges, i)] : i \in 1..(Len(c.edges) - 1)}
    \cup {[c EXCEPT !.entrypoints = SwapAt(c.entrypoints, i)] :
            i \in 1..(Len(c.entrypoints) - 1)}

\* canonicalize_graph_config applied to another listing of the same payload
CanonicalizeReordered ==
    /\ pc = "canonical"
    /\ \E other \in Reorderings(config) :
          /\ other # config
          /\ reordered' = other
          /\ canonical_other' = canonicalize_graph_config(other)
    /\ pc' = "compared"
    /\ UNCHANGED <<config, canonical, recanonical, errors, canonical_errors>>
    /\ UNCHANGED outsidePipeline

Next ==
    \/ Parse
    \/ LoadBuiltin
    \/ Validate
    \/ Canonicalize
    \/ ValidateCanonical
    \/ Recanonicalize
    \/ CanonicalizeReordered

Spec == Init /\ [][Next]_vars

\* GraphCompiler.__init__(config, ...): canonicalize, validate (raising
\* ValueError on any error), keep the canonical config and construct the
\* GraphBuilder on its legacy form
Compile ==
    /\ pc = "parsed"
    /\ LET canon == canonicalize_graph_config(config) IN
       \E cyc \in CycleResults(canon) :
          IF ensure_valid_raises(validate_graph_config(canon, cyc))
          THEN /\ pc' = "compile_raised"
               /\ UNCHANGED compilerVars
          ELSE /\ compiler_config' = canon
               /\ builder' = to_legacy_graph_config(canon)
               /\ pc' = "compiled"
    /\ UNCHANGED <<config, reordered, canonical, canonical_other, recanonical, errors,
                   canonical_errors>>
    /\ UNCHANGED <<upgraderVars, runtimeVars, factoryVars, registryVars>>

\* parse_graph_config on a two-node payload, for every kind of node
ParseKinds ==
    /\ pc = "idle"
    /\ \E kinds \in [1..2 -> GraphNodeKinds] :
       LET raw == [Payload(<<"b", "a">>,
                           <<GraphEdgeConfig("b", "END", WhenNone, 0, NoLabel),
                             GraphEdgeConfig("a", "b", PredQ, 1, "x")>>,
                           <<"a">>, {"p"}, <<1, 2>>)
                     EXCEPT !.nodes = <<GraphNodeOfKind("b", kinds[1]),
                                        GraphNodeOfKind("a", kinds[2])>>] IN
          /\ ParseAccepts(raw)
          /\ config' = raw
          /\ pc' = "parsed"
    /\ UNCHANGED <<reordered, canonical, canonical_other, recanonical, errors,
                   canonical_errors>>
    /\ UNCHANGED outsidePipeline

CompileNext ==
    \/ Parse
    \/ ParseKinds
    \/ Compile

CompileSpec == Init /\ [][CompileNext]_vars

----------------------------------------------------------------------------
(* Calls of upgrade_graph_config *)

MaxLegacyNodes == 2
MaxLegacyEdges == 2

\* hand-written v3 payloads: small graphs, valid and invalid
WrittenV3Payloads ==
    Family({[i \in 1..k |-> NodeIdPool[i]] : k \in 0..MaxNodes}, {<<"a">>},
           NodeIds, NodeIds \cup {"END"}, {WhenNone, PredP},
           {0}, {NoLabel}, {{}, {"p"}}, {<<1, 1>>, <<0, 1>>})

\* the payload dict of a hand-written v3 config, state.schema under its alias
WrittenPayload(c, schema_version, version) ==
    [model_dump(c) EXCEPT !.schema_version = schema_version,
                          !.version = version,
                          !.v3.state.key = "schema"]

LegacyCustomCondition(state_key) ==
    [LegacyNoCondition EXCEPT !.type = "custom", !.state_key = state_key,
                              !.operator = "truthy", !.value = "null"]

LegacyBuiltinCondition(cond) ==
    [LegacyNoCondition EXCEPT !.type = "builtin", !.cond = cond]

LegacyPayload(version, nodes, edges, entry_point, fields, max_steps) ==
    RawPayload(<<>>, version, "v2", NoV3Body,
        [nodes |-> nodes, edges |-> edges, entry_point |-> entry_point,
         custom_state_fields |-> fields, max_steps |-> max_steps,
         max_execution_time_seconds |-> 300])

\* upgrade_graph_config(config.model_dump()) for a parsed GraphConfig
UpgradeSerialized ==
    /\ upc = "idle"
    /\ \E ns \in OrderingPayloads.nodeLists, en \in OrderingPayloads.entryLists,
          k \in 0..MaxEdges :
       \E es \in [1..k -> OrderingPayloads.edgeSet] :
       LET c == Payload(ns, es, en, {"p"}, <<1, 1>>) IN
          /\ ParseAccepts(c)
          /\ source_config' = c
          /\ raw_input' = model_dump(c)
          /\ \E outcome \in upgrade_graph_config(model_dump(c)) :
                /\ migration' = outcome
                /\ upc' = IF outcome.raised = "" THEN "returned" ELSE "raised"
    /\ UNCHANGED outsideUpgrader

\* upgrade_graph_config on a hand-written payload that carries a v3 body
UpgradeWrittenV3 ==
    /\ upc = "idle"
    /\ \E ns \in WrittenV3Payloads.nodeLists, k \in 0..MaxEdges,
          sc \in WrittenV3Payloads.schemas, lim \in WrittenV3Payloads.limits,
          version \in {<<SCHEMA_VERSION_3_0, <<>>>>, <<SchemaVersion("3", "1"), <<>>>>,
                       <<<<>>, SCHEMA_VERSION_3_0>>, <<<<>>, SchemaVersion("2", "0")>>} :
       \E es \in [1..k -> WrittenV3Payloads.edgeSet] :
       LET raw == WrittenPayload(Payload(ns, es, <<"a">>, sc, lim), version[1], version[2]) IN
          \* a v3 body under a legacy version is read by the legacy schema,
          \* which is followed here only up to the empty-graph test
          /\ (StartsWith(detect_graph_config_version(raw), <<"3", ".">>)
                \/ is_explicit_empty_graph(raw))
          /\ raw_input' = raw
          /\ \E outcome \in upgrade_graph_config(raw) :
                /\ migration' = outcome
                /\ upc' = IF outcome.raised = "" THEN "returned" ELSE "raised"
    /\ UNCHANGED source_config
    /\ UNCHANGED outsideUpgrader

\* upgrade_graph_config on a v1/v2 payload: which entrypoint is derived
UpgradeLegacyEntrypoints ==
    /\ upc = "idle"
    /\ \E n \in 0..MaxLegacyNodes, k \in 0..MaxLegacyEdges,
          entry_point \in {None, "", "a", "c"} :
       \E ids \in [1..n -> {"", " a", "a", "b"}],
          es \in [1..k -> {LegacyGraphEdgeConfig(f, t, LegacyNoCondition, NoLabel, 0) :
                             f \in {"START", "a"}, t \in {"a", "b", "c", "END"}}] :
       LET raw == LegacyPayload(SchemaVersion("2", "0"),
                                [i \in 1..n |-> LegacyNode(ids[i], "llm", TRUE)],
                                es, entry_point, {}, <<>>) IN
          /\ raw_input' = raw
          /\ \E outcome \in upgrade_graph_config(raw) :
                /\ migration' = outcome
                /\ upc' = IF outcome.raised = "" THEN "returned" ELSE "raised"
    /\ UNCHANGED source_config
    /\ UNCHANGED outsideUpgrader

\* the node lists of the payloads that exercise the node conversion
LegacyNodeKinds ==
    {<<"llm", TRUE>>, <<"llm", FALSE>>, <<"tool", FALSE>>, <<"transform", TRUE>>,
     <<"transform", FALSE>>, <<"component", FALSE>>, <<"bogus", TRUE>>}

\* upgrade_graph_config on a v1/v2 payload: how nodes are converted
UpgradeLegacyNodes ==
    /\ upc = "idle"
    /\ \E n \in 0..MaxLegacyNodes,
          version \in {SchemaVersion("2", "0"), SchemaVersion("1", "0"),
                       SchemaVersion("4", "0"), <<>>} :
       \E ids \in [1..n -> {"a", "b"}], kinds \in [1..n -> LegacyNodeKinds] :
       LET raw == LegacyPayload(version,
                                [i \in 1..n |-> LegacyNode(ids[i], kinds[i][1], kinds[i][2])],
                                <<LegacyGraphEdgeConfig("a", "END", LegacyNoCondition,
                                                        NoLabel, 0)>>,
                                "a", {}, <<>>) IN
          /\ raw_input' = raw
          /\ \E outcome \in upgrade_graph_config(raw) :
                /\ migration' = outcome
                /\ upc' = IF outcome.raised = "" THEN "returned" ELSE "raised"
    /\ UNCHANGED source_config
    /\ UNCHANGED outsideUpgrader

\* upgrade_graph_config on a v2 payload: how edges, state and limits are
\* converted
UpgradeLegacyEdges ==
    /\ upc = "idle"
    /\ \E k \in 0..MaxLegacyEdges, fields \in {{}, {"p"}},
          max_steps \in {<<>>, <<0>>, <<10>>} :
       \E es \in [1..k -> {LegacyGraphEdgeConfig(f, t, cond, NoLabel, 0) :
                             f \in {"a", "c", "END"}, t \in {"b", "END", "START"},
                             cond \in {LegacyNoCondition,
                                       LegacyBuiltinCondition("has_tool_calls"),
                                       LegacyCustomCondition("p"),
                                       LegacyCustomCondition("")}}] :
       LET raw == LegacyPayload(SchemaVersion("2", "0"),
                                <<LegacyNode("a", "llm", TRUE), LegacyNode("b", "tool", TRUE)>>,
                                es, "a", fields, max_steps) IN
          /\ raw_input' = raw
          /\ \E outcome \in upgrade_graph_config(raw) :
                /\ migration' = outcome
                /\ upc' = IF outcome.raised = "" THEN "returned" ELSE "raised"
    /\ UNCHANGED source_config
    /\ UNCHANGED outsideUpgrader

\* upgrade_graph_config on a v2 payload of one node: which edges are dropped,
\* and what a kept edge carries
UpgradeLegacyDrops ==
    /\ upc = "idle"
    /\ \E k \in 0..MaxLegacyEdges, id \in {"a", " a"} :
       \E es \in [1..k -> {LegacyGraphEdgeConfig(f, t, LegacyNoCondition, pl[2], pl[1]) :
                             f \in {"START", "a", "c", "END"},
                             t \in {"a", "c", "END", "START"},
                             pl \in {<<0, NoLabel>>, <<1, "exit">>}}] :
       LET raw == LegacyPayload(SchemaVersion("2", "0"), <<LegacyNode(id, "llm", TRUE)>>,
                                es, None, {}, <<>>) IN
          /\ raw_input' = raw
          /\ \E outcome \in upgrade_graph_config(raw) :
                /\ migration' = outcome
                /\ upc' = IF outcome.raised = "" THEN "returned" ELSE "raised"
    /\ UNCHANGED source_config
    /\ UNCHANGED outsideUpgrader

\* upgrade_graph_config on a v2 payload: which ids the converted nodes get
UpgradeLegacyIds ==
    /\ upc = "idle"
    /\ \E n \in 0..MaxLegacyNodes, entry_point \in {"a", "node_1"},
          es \in {<<>>} \cup {<<LegacyGraphEdgeConfig(f, "node_2", LegacyNoCondition, NoLabel, 0),
                                LegacyGraphEdgeConfig("node_2", "END", LegacyNoCondition,
                                                      NoLabel, 0)>> : f \in {"a", "node_1"}} :
       \E ids \in [1..n -> {"", " ", "a", "node_1", "node_2"}],
          kinds \in [1..n -> {<<"llm", TRUE>>, <<"transform", FALSE>>,
                              <<"component", FALSE>>}] :
       LET raw == LegacyPayload(SchemaVersion("2", "0"),
                                [i \in 1..n |-> LegacyNode(ids[i], kinds[i][1], kinds[i][2])],
                                es, entry_point, {}, <<>>) IN
          /\ raw_input' = raw
          /\ \E outcome \in upgrade_graph_config(raw) :
                /\ migration' = outcome
                /\ upc' = IF outcome.raised = "" THEN "returned" ELSE "raised"
    /\ UNCHANGED source_config
    /\ UNCHANGED outsideUpgrader

UpgradeNext ==
    \/ UpgradeSerialized
    \/ UpgradeWrittenV3
    \/ UpgradeLegacyEntrypoints
    \/ UpgradeLegacyNodes
    \/ UpgradeLegacyEdges
    \/ UpgradeLegacyDrops
    \/ UpgradeLegacyIds

UpgradeSpec == Init /\ [][UpgradeNext]_vars

----------------------------------------------------------------------------
(* Runs of a compiled graph *)

\* max_steps of the explored graphs: that of the cycle scenario, and a small one
RunMaxSteps == 10
SmallMaxSteps == 2

\* max_time_s of the explored graphs, and the wall-clock time explored
ShortTime == 2
MaxElapsed == 3
LongTime == MaxElapsed + 1

RunLimits == {<<RunMaxSteps, LongTime>>, <<SmallMaxSteps, LongTime>>,
              <<RunMaxSteps, ShortTime>>}

\* the two-node cycle a -> b, b -> a
BareCycle(lim) ==
    Payload(<<"a", "b">>,
            <<GraphEdgeConfig("a", "b", WhenNone, 0, NoLabel),
              GraphEdgeConfig("b", "a", WhenNone, 0, NoLabel)>>,
            <<"a">>, {}, lim)

\* the same cycle with a guarded way out: a -> END when p is truthy
GuardedCycle(lim) ==
    Payload(<<"a", "b">>,
            <<GraphEdgeConfig("a", "END", PredP, 1, NoLabel),
              GraphEdgeConfig("a", "b", WhenNone, 0, NoLabel),
              GraphEdgeConfig("b", "a", WhenNone, 0, NoLabel)>>,
            <<"a">>, {"p"}, lim)

\* the tool loop of the ReAct agent
ToolLoop(lim) ==
    Payload(<<"a", "b">>,
            <<GraphEdgeConfig("a", "b", WhenBuiltin(HAS_TOOL_CALLS), 0, NoLabel),
              GraphEdgeConfig("a", "END", WhenBuiltin(NO_TOOL_CALLS), 0, NoLabel),
              GraphEdgeConfig("b", "a", WhenNone, 0, NoLabel)>>,
            <<"a">>, {}, lim)

\* a -> b -> END
Linear(lim) ==
    Payload(<<"a", "b">>,
            <<GraphEdgeConfig("a", "b", WhenNone, 0, NoLabel),
              GraphEdgeConfig("b", "END", WhenNone, 0, NoLabel)>>,
            <<"a">>, {}, lim)

\* a node whose only way out is guarded
GuardedExit(lim) ==
    Payload(<<"a">>, <<GraphEdgeConfig("a", "END", PredP, 0, NoLabel)>>,
            <<"a">>, {"p"}, lim)

RunPayloads ==
    UNION {{BareCycle(lim), GuardedCycle(lim), ToolLoop(lim), Linear(lim), GuardedExit(lim)} :
           lim \in RunLimits}

\* the values of p a run may start with
StateValues == {"true", "null"}

\* the run ends: the state handed to the caller holds what was merged
Exit(condition, merges) ==
    /\ rpc' = "done"
    /\ exit_condition' = condition
    /\ returned_state' = merges

\* parse_graph_config on the payload of a graph that is to be run
LoadRunConfig ==
    /\ pc = "idle"
    /\ \E raw \in RunPayloads :
          IF ParseAccepts(raw)
          THEN /\ config' = raw
               /\ pc' = "parsed"
          ELSE /\ config' = NoConfig
               /\ pc' = "rejected"
    /\ UNCHANGED <<reordered, canonical, canonical_other, recanonical, errors,
                   canonical_errors>>
    /\ UNCHANGED outsidePipeline

\* the compiled graph is invoked: step_count = 0, the frontier is seeded with
\* the entrypoint
Invoke ==
    /\ pc = "compiled"
    /\ rpc = "idle"
    /\ \E value \in StateValues : run_state' = [p |-> value]
    /\ frontier' = {builder.entry_point}
    /\ step_count' = 0
    /\ elapsed' = 0
    /\ merged' = <<>>
    /\ rpc' = "loop"
    /\ UNCHANGED <<batch, cancel_signal, exit_condition, returned_state>>
    /\ UNCHANGED outsideRuntime

\* the head of the loop: leave on cancellation, completion or a limit, else
\* drain the frontier into a batch
LoopStep ==
    /\ rpc = "loop"
    /\ LET condition == LoopExit(cancel_signal, frontier, step_count, elapsed, builder)
       IN  IF condition # ""
           THEN /\ Exit(condition, merged)
                /\ UNCHANGED <<frontier, batch>>
           ELSE /\ batch' = frontier
                /\ frontier' = {}
                /\ rpc' = "batch"
                /\ UNCHANGED <<exit_condition, returned_state>>
    /\ UNCHANGED <<run_state, step_count, elapsed, cancel_signal, merged>>
    /\ UNCHANGED outsideRuntime

\* wall-clock time passes while a batch executes
Tick ==
    /\ rpc = "batch"
    /\ elapsed < MaxElapsed
    /\ elapsed' = elapsed + 1
    /\ UNCHANGED <<rpc, run_state, frontier, batch, step_count, cancel_signal, merged,
                   exit_condition, returned_state>>
    /\ UNCHANGED outsideRuntime

\* the caller raises the cancellation signal
Cancel ==
    /\ rpc \in {"loop", "batch"}
    /\ ~cancel_signal
    /\ cancel_signal' = TRUE
    /\ UNCHANGED <<rpc, run_state, frontier, batch, step_count, elapsed, merged,
                   exit_condition, returned_state>>
    /\ UNCHANGED outsideRuntime

\* a node of the batch raises: the run ends with the partial state
NodeFails ==
    /\ rpc = "batch"
    /\ Exit("node_failed", merged)
    /\ UNCHANGED <<run_state, frontier, batch, step_count, elapsed, cancel_signal, merged>>
    /\ UNCHANGED outsideRuntime

\* the patches of the batch, in canonical node-id order
BatchPatches(nodes) ==
    CHOOSE q \in [1..Cardinality(nodes) -> nodes] :
        \A i \in 1..Len(q) - 1 : StrLt(q[i], q[i + 1])

\* the batch completes: its patches are merged, every executed node is
\* routed, the targets other than END form the next frontier and step_count
\* grows by the batch size
BatchCompletes ==
    /\ rpc = "batch"
    /\ \E has_tool_calls \in BOOLEAN :
       LET merges == merged \o BatchPatches(batch)
           targets == [n \in batch |-> Router(builder, n, run_state, has_tool_calls)]
       IN  IF \E n \in batch : targets[n] = {}
           THEN /\ Exit("invalid_routing", merges)
                /\ merged' = merges
                /\ UNCHANGED <<frontier, step_count>>
           ELSE /\ merged' = merges
                /\ frontier' = UNION {targets[n] : n \in batch} \ {"END"}
                /\ step_count' = step_count + Cardinality(batch)
                /\ rpc' = "loop"
                /\ UNCHANGED <<exit_condition, returned_state>>
    /\ batch' = {}
    /\ UNCHANGED <<run_state, elapsed, cancel_signal>>
    /\ UNCHANGED outsideRuntime

RunNext ==
    \/ LoadRunConfig
    \/ Compile
    \/ Invoke
    \/ LoopStep
    \/ Tick
    \/ Cancel
    \/ NodeFails
    \/ BatchCompletes

RunSpec == Init /\ [][RunNext]_vars

\* the scheduler keeps looping and an executing batch comes to an end
RunFairSpec == RunSpec /\ WF_vars(LoopStep) /\ WF_vars(BatchCompletes \/ NodeFails)

----------------------------------------------------------------------------
(* Calls of _inject_system_prompt *)

MaxPromptNodes == 2

\* the system prompts handed in: plain, padded and blank
SystemPrompts == {<<"p">>, <<" ", "p">>, <<"p", "\n">>, <<" ">>}

\* what a node holds as its own prompt
NodePrompts == {Absent, NotStr, Str(<<>>), Str(<<" ">>), Str(<<"n">>), Str(<<" ", "n">>)}

NoOverrides == Overrides("absent", Absent)

OverridesValues ==
    {NoOverrides, Overrides("nondict", Absent)}
        \cup {Overrides("dict", prompt) : prompt \in NodePrompts}

NodeConfigs(tag) ==
    {NodeConfig("absent", Absent, NoOverrides)}
        \cup (CASE tag = "llm" ->
                     {NodeConfig("nondict", Absent, NoOverrides)}
                         \cup {NodeConfig("dict", prompt, NoOverrides) : prompt \in NodePrompts}
                [] tag = "component" ->
                     {NodeConfig("nondict", Absent, NoOverrides)}
                         \cup {NodeConfig("dict", Absent, ov) : ov \in OverridesValues}
                [] OTHER -> {})

NodeDicts(shape) ==
    UNION {{NodeDict(shape, tag, cfg) : cfg \in NodeConfigs(tag)} :
           tag \in {"llm", "component", "transform"}}

\* the graph_config of an agent record, in either shape or without a node list
StoredConfigs ==
    {ConfigDict("none", <<>>)}
        \cup UNION {{ConfigDict(shape, nodes) : nodes \in SeqsUpTo(NodeDicts(shape), MaxPromptNodes)} :
                    shape \in {"v2", "v3"}}

\* model_dump() of the default builtin (react): an llm node with its prompt
\* and a tool node, in the canonical shape
BuiltinDump ==
    ConfigDict("v3", <<NodeDict("v3", "llm", NodeConfig("dict", Str(<<"n">>), NoOverrides)),
                       NodeDict("v3", "tool", NodeConfig("dict", Absent, NoOverrides))>>)

\* the call: the returned dict, and the caller's dict as the call left it
CallInject(c, system_prompt) ==
    /\ ipc = "idle"
    /\ inject_input' = c
    /\ inject_prompt' = system_prompt
    /\ injected' = inject_system_prompt(c, system_prompt)
    /\ config_dict' = SeenByCaller(c, inject_system_prompt(c, system_prompt))
    /\ ipc' = "injected"
    /\ UNCHANGED outsideFactory

\* _resolve_agent_config on an agent with a graph_config and a system prompt
InjectStored ==
    \E c \in StoredConfigs, system_prompt \in SystemPrompts : CallInject(c, system_prompt)

\* _resolve_agent_config without a graph_config: the default builtin
InjectBuiltin ==
    \E system_prompt \in SystemPrompts : CallInject(BuiltinDump, system_prompt)

InjectNext ==
    \/ InjectStored
    \/ InjectBuiltin

InjectSpec == Init /\ [][InjectNext]_vars

----------------------------------------------------------------------------
(* Calls on the component registry *)

\* the components registered from outside ensure_components_registered
OutsideComponents ==
    {Component(key, version) :
        key \in {"custom", "react"},
        version \in {VersionText(TRUE, 1, 0, 0), VersionText(TRUE, 2, 1, 0),
                     InvalidVersionText}}

Constraints ==
    {Wildcard}
        \cup {Constraint(prefix, text) :
                prefix \in {"^", "~", "~=", ""} \cup SpecifierOperators,
                text \in {VersionText(TRUE, 1, 0, 0), VersionText(TRUE, 2, 0, 0),
                          InvalidVersionText}}

\* component_registry.register(component, override) from outside.  The
\* records of the last register and of the last resolve stand for the call
\* made last: a call clears the record of the other kind.
RegisterCall ==
    /\ epc = 0
    /\ \E component \in OutsideComponents, override \in BOOLEAN :
          IF register_raises(components, component, override)
          THEN /\ register_outcome' = Registered(component, override, "ValueError")
               /\ UNCHANGED <<components, last_registered, outside_registered>>
          ELSE /\ components' = register(components, component)
               /\ last_registered' = [last_registered EXCEPT ![component.key] = component]
               /\ outside_registered' = TRUE
               /\ register_outcome' = Registered(component, override, "returned")
    /\ resolve_args' = NoResolve
    /\ resolved' = NoComponent
    /\ UNCHANGED <<components_registered, epc, ensure_outcome, failed_midway>>
    /\ UNCHANGED outsideRegistry

\* ensure_components_registered() is called: it returns at once when the
\* flag is set, and starts to register otherwise
EnsureCall ==
    /\ epc = 0
    /\ IF ensure_registers(components_registered)
       THEN epc' = 1 /\ ensure_outcome' = "running"
       ELSE epc' = 0 /\ ensure_outcome' = "returned"
    /\ register_outcome' = NoRegister
    /\ resolve_args' = NoResolve
    /\ resolved' = NoComponent
    /\ UNCHANGED <<components, components_registered, last_registered,
                   outside_registered, failed_midway>>
    /\ UNCHANGED outsideRegistry

\* the import or the constructor in front of the next register raises
EnsureImportFails ==
    /\ epc \in 1..Len(BuiltinComponents)
    /\ epc' = 0
    /\ ensure_outcome' = "ImportError"
    /\ failed_midway' = (failed_midway \/ epc > 1)
    /\ UNCHANGED <<components, components_registered, register_outcome, last_registered,
                   outside_registered, resolve_args, resolved>>
    /\ UNCHANGED outsideRegistry

\* the next component_registry.register(...) of the call; the flag is set
\* after the last one
EnsureRegister ==
    /\ epc \in 1..Len(BuiltinComponents)
    /\ LET component == BuiltinComponents[epc] IN
          IF register_raises(components, component, FALSE)
          THEN /\ epc' = 0
               /\ ensure_outcome' = "ValueError"
               /\ failed_midway' = (failed_midway \/ epc > 1)
               /\ UNCHANGED <<components, components_registered, last_registered>>
          ELSE /\ components' = register(components, component)
               /\ last_registered' = [last_registered EXCEPT ![component.key] = component]
               /\ UNCHANGED failed_midway
               /\ IF epc = Len(BuiltinComponents)
                  THEN /\ components_registered' = TRUE
                       /\ epc' = 0
                       /\ ensure_outcome' = "completed"
                  ELSE /\ epc' = epc + 1
                       /\ UNCHANGED <<components_registered, ensure_outcome>>
    /\ UNCHANGED <<register_outcome, outside_registered, resolve_args, resolved>>
    /\ UNCHANGED outsideRegistry

\* component_registry.resolve(key, version_constraint)
ResolveCall ==
    /\ epc = 0
    /\ \E key \in {"custom", "react"}, constraint \in Constraints :
          /\ resolve_args' = [key |-> key, constraint |-> constraint]
          /\ resolved' = resolve(components, key, constraint)
    /\ register_outcome' = NoRegister
    /\ UNCHANGED <<components, components_registered, epc, ensure_outcome,
                   last_registered, outside_registered, failed_midway>>
    /\ UNCHANGED outsideRegistry

RegistryNext ==
    \/ RegisterCall
    \/ EnsureCall
    \/ EnsureImportFails
    \/ EnsureRegister
    \/ ResolveCall

RegistrySpec == Init /\ [][RegistryNext]_vars

----------------------------------------------------------------------------
(* validate_graph_config on a config whose limits were assigned after the  *)
(* parse: GraphExecutionLimits checks ge=1 when it is constructed, not when *)
(* a field is assigned                                                       *)

AssignedLimits == {<<0, 0>>, <<0, 1>>, <<1, 0>>, <<-1, -1>>}

\* config.limits.max_steps = ...; config.limits.max_time_s = ...
AssignLimits ==
    /\ pc = "parsed"
    /\ config.max_steps > 0 /\ config.max_time_s > 0
    /\ \E lim \in AssignedLimits :
          config' = [config EXCEPT !.max_steps = lim[1], !.max_time_s = lim[2]]
    /\ UNCHANGED <<pc, reordered, canonical, canonical_other, recanonical, errors,
                   canonical_errors>>
    /\ UNCHANGED outsidePipeline

ValidatorNext ==
    \/ Parse
    \/ AssignLimits
    \/ Validate

ValidatorSpec == Init /\ [][ValidatorNext]_vars

----------------------------------------------------------------------------
(* Properties of the canonicalizer *)

UniqueNodeIds(c) == Cardinality(Range(NodeIdSeq(c))) = Len(c.nodes)

\* C1: two parsed configs with unique node ids that differ only in the order
\* of graph.nodes, graph.edges and graph.entrypoints have equal canonical
\* forms.
C1_OrderIndependent ==
    (pc = "compared" /\ UniqueNodeIds(config)) => canonical_other = canonical

\* C2: canonicalize_graph_config is idempotent: canonicalizing a canonical
\* config returns it unchanged.
C2_Idempotent ==
    pc = "recanonical" => recanonical = canonical

\* C2 witness: a config that canonicalization changed, with two distinct
\* edges of equal sort key, has been canonicalized twice.
C2_Witness ==
    /\ pc = "recanonical"
    /\ canonical # config
    /\ \E i, j \in 1..Len(config.edges) :
          /\ i < j
          /\ config.edges[i] # config.edges[j]
          /\ edge_sort_key(config.edges[i]) = edge_sort_key(config.edges[j])

----------------------------------------------------------------------------
(* Properties of the validator *)

Validated == pc \in {"validated", "canonical", "canonical_validated", "recanonical", "compared"}

Codes(errs) == {errs[i].code : i \in 1..Len(errs)}

HasError(errs, code) == code \in Codes(errs)

\* an error without its position: code, path text and message
Unplaced(e) == [code |-> e.code, path |-> e.path, arg |-> e.arg]

CountOf(errs, u) == Cardinality({i \in 1..Len(errs) : Unplaced(errs[i]) = u})

SameErrorsUpToPlace(errs1, errs2) ==
    /\ Len(errs1) = Len(errs2)
    /\ \A i \in 1..Len(errs1) :
          CountOf(errs1, Unplaced(errs1[i])) = CountOf(errs2, Unplaced(errs1[i]))

\* C3 as stated: validating the canonical form returns the same list of
\* errors, each with the same code, path and message, as validating the
\* config itself.
C3_SameErrorList ==
    pc = "canonical_validated" => canonical_errors = errors

\* C3 amended: validating the canonical form returns the same errors up to
\* their order in the list and up to the list index inside a path
\* (graph.edges[i], graph.entrypoints[i]): the same codes and messages, each
\* the same number of times.
C3_SameErrorsUpToPlace ==
    pc = "canonical_validated" => SameErrorsUpToPlace(errors, canonical_errors)

\* C3 witness: canonicalization moved an edge that carries an error, so the
\* two lists differ and still agree up to place.
C3_Witness ==
    /\ pc = "canonical_validated"
    /\ canonical.edges # config.edges
    /\ canonical_errors # errors
    /\ \E i \in 1..Len(errors) : errors[i].idx >= 0

NodeIdSet(c) == Range(NodeIdSeq(c))

EdgeIdx(c) == 1..Len(c.edges)

\* an edge between two existing nodes
AmongNodes(c, e) == e.from_node \in NodeIdSet(c) /\ e.to_node \in NodeIdSet(c)

\* least set that holds R and is closed under the edges followed: those
\* between existing nodes (among = TRUE), or every edge that does not go to
\* END, whether or not its endpoints name existing nodes (among = FALSE)
RECURSIVE ClosureUnder(_, _, _)
ClosureUnder(R, c, among) ==
    LET follow(e) == IF among THEN AmongNodes(c, e) ELSE e.to_node # "END"
        more == {c.edges[i].to_node : i \in {j \in EdgeIdx(c) :
                    c.edges[j].from_node \in R /\ follow(c.edges[j])}}
    IN  IF more \subseteq R THEN R ELSE ClosureUnder(R \cup more, c, among)

\* what an entrypoint reaches along edges between existing nodes
ReachedAmongNodes(c) == ClosureUnder(Range(c.entrypoints), c, TRUE)

\* what an entrypoint reaches along edges taken by the names of their ends
ReachedByName(c) == ClosureUnder(Range(c.entrypoints), c, FALSE)

\* the nodes form a directed cycle (self-loops included)
HasDirectedCycle(c) ==
    \E i \in EdgeIdx(c) :
        /\ AmongNodes(c, c.edges[i])
        /\ c.edges[i].from_node \in ClosureUnder({c.edges[i].to_node}, c, TRUE)

\* C4: a config with no validation errors has a non-empty node list with
\* pairwise distinct ids, exactly one entrypoint that is an existing node id,
\* and every edge goes from an existing node id (never START or END) to END
\* or an existing node id (never START).
C4_ValidStructure ==
    (Validated /\ errors = <<>>) =>
        /\ Len(config.nodes) > 0
        /\ UniqueNodeIds(config)
        /\ Len(config.entrypoints) = 1
        /\ config.entrypoints[1] \in NodeIdSet(config)
        /\ \A i \in EdgeIdx(config) :
              /\ config.edges[i].from_node \in NodeIdSet(config)
              /\ config.edges[i].from_node \notin {"START", "END"}
              /\ config.edges[i].to_node \in NodeIdSet(config) \cup {"END"}
              /\ config.edges[i].to_node # "START"

\* C4 witness: a two-node, two-edge config was validated without errors.
C4_Witness ==
    /\ pc = "validated"
    /\ errors = <<>>
    /\ Cardinality(NodeIdSet(config)) = 2
    /\ Len(config.edges) = 2

\* C5: UNREACHABLE_NODE (path graph.nodes) is reported if and only if some
\* node cannot be reached from an entrypoint along edges between existing
\* nodes.
C5_UnreachableNode ==
    Validated =>
        ((\E i \in 1..Len(errors) :
             errors[i].code = "UNREACHABLE_NODE" /\ errors[i].path = "graph.nodes")
         <=> NodeIdSet(config) \ ReachedAmongNodes(config) # {})

\* C5 witness: the entrypoint is an existing node with an outgoing edge and
\* another node is reported unreachable.
C5_Witness ==
    /\ pc = "validated"
    /\ HasError(errors, "UNREACHABLE_NODE")
    /\ Range(config.entrypoints) \subseteq NodeIdSet(config)
    /\ \E i \in EdgeIdx(config) : config.edges[i].from_node \in Range(config.entrypoints)

\* C5 witness of the other side: a node that is no entrypoint is reached
\* over an edge and nothing is reported.
C5_WitnessReached ==
    /\ pc = "validated"
    /\ ~HasError(errors, "UNREACHABLE_NODE")
    /\ NodeIdSet(config) \ Range(config.entrypoints) # {}

\* C6 as stated: END_UNREACHABLE is reported if and only if no path starts at
\* an entrypoint, follows edges between existing nodes and ends with an edge
\* to END.
C6_EndUnreachableAmongNodes ==
    Validated =>
        (HasError(errors, "END_UNREACHABLE")
         <=> ~\E i \in EdgeIdx(config) :
                /\ config.edges[i].from_node \in ReachedAmongNodes(config)
                /\ config.edges[i].to_node = "END")

\* C6 amended: for a config with at least one node, END_UNREACHABLE is
\* reported if and only if no path starts at an entrypoint, follows edges by
\* the names of their endpoints (existing nodes or not) and ends with an edge
\* to END; for an empty node list it is never reported.
C6_EndUnreachableByName ==
    Validated =>
        (HasError(errors, "END_UNREACHABLE")
         <=> /\ Len(config.nodes) > 0
             /\ ~\E i \in EdgeIdx(config) :
                    /\ config.edges[i].from_node \in ReachedByName(config)
                    /\ config.edges[i].to_node = "END")

\* C6 witness: END is reached through a name that is no existing node, and
\* END_UNREACHABLE is not reported.
C6_Witness ==
    /\ pc = "validated"
    /\ Len(config.nodes) > 0
    /\ ~HasError(errors, "END_UNREACHABLE")
    /\ ~\E i \in EdgeIdx(config) :
            /\ config.edges[i].from_node \in ReachedAmongNodes(config)
            /\ config.edges[i].to_node = "END"

----------------------------------------------------------------------------
(* The errors a config calls for, stated per check *)

Expect(code, idx) == [code |-> code, idx |-> idx]

Reported(errs) == {Expect(errs[i].code, errs[i].idx) : i \in 1..Len(errs)}

\* edges of one source that satisfy a test and have exactly k earlier edges
\* of that source satisfying it
NthOfSource(c, Test(_), k) ==
    {i \in EdgeIdx(c) :
        /\ Test(c.edges[i])
        /\ Cardinality({j \in 1..(i - 1) :
              c.edges[j].from_node = c.edges[i].from_node /\ Test(c.edges[j])}) = k}

IsBuiltinEdge(e) == e.when.type = "builtin"

ExpectedErrors(c) ==
    LET ids == NodeIdSet(c)
        paths == c.schema \cup {"messages", "execution_context"}
        edge(i) == c.edges[i]
    IN  (IF Len(c.nodes) = 0 THEN {Expect("EMPTY_GRAPH", -1)} ELSE {})
        \cup (IF ~UniqueNodeIds(c) THEN {Expect("DUPLICATE_NODE_ID", -1)} ELSE {})
        \cup (IF Len(c.entrypoints) # 1
              THEN {Expect("MULTIPLE_ENTRYPOINTS_UNSUPPORTED", -1)} ELSE {})
        \cup {Expect("ENTRYPOINT_NOT_FOUND", i - 1) :
                i \in {j \in 1..Len(c.entrypoints) : c.entrypoints[j] \notin ids}}
        \cup {Expect("EDGE_FROM_START_FORBIDDEN", i - 1) :
                i \in {j \in EdgeIdx(c) : edge(j).from_node = "START"}}
        \cup {Expect("EDGE_FROM_END_FORBIDDEN", i - 1) :
                i \in {j \in EdgeIdx(c) : edge(j).from_node = "END"}}
        \cup {Expect("EDGE_SOURCE_NOT_FOUND", i - 1) :
                i \in {j \in EdgeIdx(c) : edge(j).from_node \notin ids \cup {"START", "END"}}}
        \cup {Expect("EDGE_TO_START_FORBIDDEN", i - 1) :
                i \in {j \in EdgeIdx(c) : edge(j).to_node = "START"}}
        \cup {Expect("EDGE_TARGET_NOT_FOUND", i - 1) :
                i \in {j \in EdgeIdx(c) : edge(j).to_node \notin ids \cup {"START", "END"}}}
        \cup {Expect("PREDICATE_STATE_PATH_MISSING", i - 1) :
                i \in {j \in EdgeIdx(c) :
                    edge(j).when.type = "predicate" /\ edge(j).when.state_path \notin paths}}
        \cup {Expect("MULTIPLE_DEFAULT_EDGES", i - 1) : i \in NthOfSource(c, IsDefaultEdge, 1)}
        \cup {Expect("DUPLICATE_HAS_TOOL_CALLS_EDGE", i - 1) :
                i \in NthOfSource(c, IsHasToolEdge, 1)}
        \cup {Expect("DUPLICATE_NO_TOOL_CALLS_EDGE", i - 1) :
                i \in NthOfSource(c, IsNoToolEdge, 1)}
        \cup {Expect("MIXED_BUILTIN_AND_CUSTOM_ROUTING", i - 1) :
                i \in {j \in NthOfSource(c, IsCustomPredicateEdge, 0) :
                    \E k \in EdgeIdx(c) :
                        edge(k).from_node = edge(j).from_node /\ IsBuiltinEdge(edge(k))}}
        \cup (IF ids \ ReachedAmongNodes(c) # {} THEN {Expect("UNREACHABLE_NODE", -1)} ELSE {})
        \cup (IF ~\E i \in EdgeIdx(c) :
                    edge(i).from_node \in ReachedByName(c) /\ edge(i).to_node = "END"
              THEN {Expect("END_UNREACHABLE", -1)} ELSE {})
        \cup (IF HasDirectedCycle(c) /\ c.max_steps <= 0 /\ c.max_time_s <= 0
              THEN {Expect("CYCLE_LIMITS_REQUIRED", -1)} ELSE {})

\* C8 as stated: every check is applied on every call and every error whose
\* condition holds is returned; no error, EMPTY_GRAPH included, suppresses
\* another.
C8_AllChecksApplied ==
    Validated => Reported(errors) = ExpectedErrors(config)

\* C8 amended: for a config with at least one node every check is applied
\* and every error whose condition holds is returned, once; for an empty
\* node list the validator returns EMPTY_GRAPH alone and applies no other
\* check.
C8_AllChecksUnlessEmpty ==
    Validated =>
        IF Len(config.nodes) = 0
        THEN errors = <<Error("EMPTY_GRAPH", "graph.nodes", -1, {})>>
        ELSE /\ Reported(errors) = ExpectedErrors(config)
             /\ Len(errors) = Cardinality(ExpectedErrors(config))

\* C8 witness: one edge of a non-empty graph carries two errors and a third
\* error of another check is returned with them.
C8_Witness ==
    /\ pc = "validated"
    /\ Len(config.nodes) > 0
    /\ \E i, j \in 1..Len(errors) :
          /\ i # j
          /\ errors[i].idx = errors[j].idx
          /\ errors[i].idx >= 0
          /\ errors[i].path = "graph.edges[].from_node"
          /\ errors[j].path = "graph.edges[].to_node"
    /\ HasError(errors, "UNREACHABLE_NODE")

\* the edges that leave one source and satisfy a test
OutOf(c, source, Test(_)) ==
    {i \in EdgeIdx(c) : c.edges[i].from_node = source /\ Test(c.edges[i])}

\* C9: in a config with no validation errors each source has at most one
\* unconditional edge, at most one has_tool_calls edge, at most one
\* no_tool_calls edge, and never both a built-in guard and a predicate.
C9_DeterministicRouting ==
    (Validated /\ errors = <<>>) =>
        \A i \in EdgeIdx(config) :
            LET source == config.edges[i].from_node
            IN  /\ Cardinality(OutOf(config, source, IsDefaultEdge)) <= 1
                /\ Cardinality(OutOf(config, source, IsHasToolEdge)) <= 1
                /\ Cardinality(OutOf(config, source, IsNoToolEdge)) <= 1
                /\ ~(/\ OutOf(config, source, IsBuiltinEdge) # {}
                     /\ OutOf(config, source, IsCustomPredicateEdge) # {})

\* C9 witness: a config with two guarded edges out of one source was
\* validated without errors.
C9_Witness ==
    /\ pc = "validated"
    /\ errors = <<>>
    /\ \E i, j \in EdgeIdx(config) :
          /\ i # j
          /\ config.edges[i].from_node = config.edges[j].from_node
          /\ config.edges[i].when.type # "none"

MissingStatePath(c, i) ==
    /\ c.edges[i].when.type = "predicate"
    /\ c.edges[i].when.state_path \notin c.schema \cup {"messages", "execution_context"}

ReportsMissingPath(errs, i) ==
    \E k \in 1..Len(errs) :
        errs[k].code = "PREDICATE_STATE_PATH_MISSING" /\ errs[k].idx = i - 1

WithStatePath(c, path) == [c EXCEPT !.schema = c.schema \cup {path}]

\* C10 as stated: PREDICATE_STATE_PATH_MISSING is reported for an edge if and
\* only if its guard is a predicate whose state_path is neither a key of
\* state.schema nor messages nor execution_context.
C10_MissingPathReported ==
    Validated =>
        \A i \in EdgeIdx(config) :
            ReportsMissingPath(errors, i) <=> MissingStatePath(config, i)

\* C10 amended: in a config with at least one node, the error is reported
\* for an edge if and only if its guard is a predicate whose state_path is
\* neither a schema key nor a built-in path, and validating the config with
\* that path added to the schema no longer reports it for the edge; for an
\* empty node list the error is never reported.
C10_MissingPathReportedUnlessEmpty ==
    Validated =>
        \A i \in EdgeIdx(config) :
            /\ ReportsMissingPath(errors, i)
                  <=> (Len(config.nodes) > 0 /\ MissingStatePath(config, i))
            /\ ReportsMissingPath(errors, i) =>
                  LET fixed == WithStatePath(config, config.edges[i].when.state_path)
                  IN  \A cyc \in CycleResults(fixed) :
                        ~ReportsMissingPath(validate_graph_config(fixed, cyc), i)

\* C10 witness: a predicate on an undeclared path is reported next to a
\* predicate on a built-in path that is not.
C10_Witness ==
    /\ pc = "validated"
    /\ \E i, j \in EdgeIdx(config) :
          /\ ReportsMissingPath(errors, i)
          /\ config.edges[j].when.type = "predicate"
          /\ config.edges[j].when.state_path = "messages"
          /\ ~ReportsMissingPath(errors, j)

----------------------------------------------------------------------------
(* Properties of the compiler *)

\* the legacy config the builder receives is derived from the canonical
\* config c: same nodes, START -> entrypoint followed by one edge per edge
DerivedFrom(legacy, c) ==
    /\ [i \in 1..Len(legacy.nodes) |-> legacy.nodes[i].id] = [i \in 1..Len(c.nodes) |-> c.nodes[i].id]
    /\ legacy.entry_point = c.entrypoints[1]
    /\ Len(legacy.edges) = Len(c.edges) + 1
    /\ legacy.edges[1].from_node = "START"
    /\ legacy.edges[1].to_node = c.entrypoints[1]
    /\ \A i \in EdgeIdx(c) :
          /\ legacy.edges[i + 1].from_node = c.edges[i].from_node
          /\ legacy.edges[i + 1].to_node = c.edges[i].to_node
          /\ legacy.edges[i + 1].priority = c.edges[i].priority

\* C11: constructing a GraphCompiler raises ValueError, and constructs no
\* GraphBuilder, for every config whose canonical form has a validation
\* error; the builder only ever receives a config derived from a canonical
\* config with zero validation errors.
C11_CompilerRefusesInvalid ==
    /\ pc \in {"compiled", "compile_raised"} =>
          (pc = "compile_raised"
             <=> ExpectedErrors(canonicalize_graph_config(config)) # {})
    /\ pc = "compile_raised" => builder = NoBuilder
    /\ builder # NoBuilder =>
          /\ pc = "compiled"
          /\ compiler_config = canonicalize_graph_config(config)
          /\ ExpectedErrors(compiler_config) = {}
          /\ DerivedFrom(builder, compiler_config)

\* C11 witness: the compiler raised on a config whose only error is a
\* predicate on a state path missing from the schema.
C11_Witness ==
    /\ pc = "compile_raised"
    /\ builder = NoBuilder
    /\ ExpectedErrors(config) = {Expect("PREDICATE_STATE_PATH_MISSING", 0)}

\* C11 witness of the other branch: a two-edge config was compiled.
C11_WitnessCompiled ==
    /\ pc = "compiled"
    /\ Len(builder.edges) = 3
    /\ compiler_config # config

----------------------------------------------------------------------------
(* Canonical form, stated on the lists themselves *)

\* the guard part of the documented edge key: tag, path, operator, value
GuardKey(when) ==
    IF when.type = "none" THEN <<"0", "", "", "">>
    ELSE IF when.type = "builtin" THEN <<"1", when.cond, "", "">>
    ELSE <<"2", when.state_path, when.operator, when.value>>

\* (from_node, -priority, guard tag, guard path, guard operator, guard value
\* JSON, to_node)
DocumentedKey(e) ==
    <<e.from_node, -e.priority>> \o GuardKey(e.when) \o <<e.to_node>>

\* k1 <= k2 in the lexicographic order of the keys
KeyLeq(k1, k2) ==
    \/ k1 = k2
    \/ \E i \in 1..7 :
          /\ \A j \in 1..(i - 1) : k1[j] = k2[j]
          /\ IF i = 2 THEN k1[i] < k2[i] ELSE StrRank(k1[i]) < StrRank(k2[i])

IsCanonical(c) ==
    /\ \A i, j \in 1..Len(c.nodes) : i < j => StrRank(c.nodes[i].id) <= StrRank(c.nodes[j].id)
    /\ \A i, j \in 1..Len(c.entrypoints) :
          i < j => StrRank(c.entrypoints[i]) <= StrRank(c.entrypoints[j])
    /\ \A i, j \in EdgeIdx(c) :
          i < j => KeyLeq(DocumentedKey(c.edges[i]), DocumentedKey(c.edges[j]))

----------------------------------------------------------------------------
(* Properties of the upgrader *)

Upgraded == upc \in {"returned", "raised"}

\* the payload fails parse_graph_config or has a validation error
FailsParseOrValidation(payload) ==
    ~PayloadAccepted(payload) \/ ExpectedErrors(ConfigOf(payload)) # {}

IsV3Payload(payload) == StartsWith(detect_graph_config_version(payload), <<"3", ".">>)

\* C12: every call of upgrade_graph_config either raises
\* GraphConfigMigrationError or returns a config with schema_version 3.0, in
\* canonical form and with zero validation errors; a converted v1/v2 payload
\* that fails parsing or validation raises INVALID_MIGRATED_V3_CONFIG and a v3
\* payload that fails raises INVALID_V3_CONFIG.
C12_UpgradeResult ==
    /\ upc = "returned" =>
          /\ migration.config.schema_version = SCHEMA_VERSION_3_0
          /\ IsCanonical(migration.config)
          /\ ExpectedErrors(migration.config) = {}
    /\ (Upgraded /\ migration.config_v3_raw # NoPayload) =>
          (FailsParseOrValidation(migration.config_v3_raw)
             <=> (upc = "raised" /\ migration.raised = "INVALID_MIGRATED_V3_CONFIG"))
    /\ (Upgraded /\ IsV3Payload(raw_input)) =>
          (FailsParseOrValidation(raw_input)
             <=> (upc = "raised" /\ migration.raised = "INVALID_V3_CONFIG"))

\* C12 witness: a v2 payload was converted to a payload that is not in
\* canonical order, and the call returned.
C12_Witness ==
    /\ upc = "returned"
    /\ raw_input.shape = "v2"
    /\ migration.config # ConfigOf(migration.config_v3_raw)

\* C12 witnesses of the two failures
C12_WitnessMigratedInvalid ==
    /\ upc = "raised"
    /\ migration.raised = "INVALID_MIGRATED_V3_CONFIG"
    /\ PayloadAccepted(migration.config_v3_raw)

C12_WitnessV3Invalid ==
    /\ upc = "raised"
    /\ migration.raised = "INVALID_V3_CONFIG"
    /\ ~PayloadAccepted(raw_input)

\* C13: for every canonical GraphConfig with zero validation errors,
\* upgrade_graph_config applied to its serialized payload returns a config
\* equal to it, with an empty warnings list.
C13_UpgradeIdentityOnCanonical ==
    (Upgraded /\ source_config # NoConfig /\ IsCanonical(source_config)
       /\ ExpectedErrors(source_config) = {}) =>
        /\ upc = "returned"
        /\ migration.config = source_config
        /\ migration.warnings = <<>>

\* C13 witness: the serialized payload of a canonical, valid config with two
\* nodes and two edges was upgraded.
C13_Witness ==
    /\ upc = "returned"
    /\ source_config # NoConfig
    /\ IsCanonical(source_config)
    /\ Len(source_config.edges) = 2
    /\ raw_input = model_dump(source_config)

\* the ids of the nodes of the migrated graph, in node order
MigratedNodeIds(payload) ==
    [i \in 1..Len(payload.v3.graph.nodes) |-> payload.v3.graph.nodes[i].id]

\* the targets of the START-sourced edges that are existing node ids
StartEdgeTargets(v2, ids) ==
    {i \in 1..Len(v2.edges) : v2.edges[i].from_node = "START" /\ v2.edges[i].to_node \in ids}

EntryPointSet(v2) == v2.entry_point \notin {None, ""}

\* a call on a v2 payload that got as far as deriving the entrypoint
DerivedFromV2 ==
    /\ Upgraded
    /\ raw_input.shape = "v2"
    /\ StartsWith(detect_graph_config_version(raw_input), <<"2", ".">>)
    /\ migration.config_v3_raw # NoPayload

HasWarning(code) == \E i \in 1..Len(migration.warnings) : migration.warnings[i].code = code

\* C14: for a v2 payload the upgrader derives exactly one entrypoint:
\* entry_point if it is an existing node id; otherwise the target of the first
\* START-sourced edge whose target is an existing node id (with a warning
\* when several distinct START targets exist); otherwise the first node (with
\* a warning); and INVALID_ENTRYPOINT_FALLBACK is emitted whenever entry_point
\* is set but is not an existing node id.
C14_DerivedEntrypoint ==
    DerivedFromV2 =>
        LET v2 == raw_input.v2
            ids == MigratedNodeIds(migration.config_v3_raw)
            starts == StartEdgeTargets(v2, Range(ids))
            first == CHOOSE i \in starts : \A j \in starts : i <= j
            expected ==
                IF EntryPointSet(v2) /\ v2.entry_point \in Range(ids) THEN v2.entry_point
                ELSE IF starts # {} THEN v2.edges[first].to_node
                ELSE ids[1]
            by_field == EntryPointSet(v2) /\ v2.entry_point \in Range(ids)
        IN  /\ migration.config_v3_raw.v3.graph.entrypoints = <<expected>>
            /\ upc = "returned" =>
                  /\ (EntryPointSet(v2) /\ v2.entry_point \notin Range(ids))
                        <=> HasWarning("INVALID_ENTRYPOINT_FALLBACK")
                  /\ (~by_field /\ Cardinality({v2.edges[i].to_node : i \in starts}) > 1)
                        <=> HasWarning("MULTIPLE_START_TARGETS_PICK_FIRST")
                  /\ (~by_field /\ starts = {}) <=> HasWarning("MISSING_ENTRYPOINT_FALLBACK")

\* the part of C14 that concerns payloads whose first node id needs no
\* normalization
C14_DerivedEntrypointOfPlainIds ==
    (DerivedFromV2 /\ raw_input.v2.nodes[1].id = Strip(raw_input.v2.nodes[1].id)
                   /\ raw_input.v2.nodes[1].id # "") => C14_DerivedEntrypoint

\* the fallback to the first node was taken and the call returned
C14_FirstNodeFallbackReturned ==
    /\ DerivedFromV2
    /\ upc = "returned"
    /\ HasWarning("MISSING_ENTRYPOINT_FALLBACK")
    /\ HasWarning("INVALID_ENTRYPOINT_FALLBACK")

\* the edge rewrite drops this v2 edge
DroppedEdge(edge, ids) ==
    \/ edge.from_node \in {"START", "END"}
    \/ edge.to_node = "START"
    \/ edge.from_node \notin ids
    \/ edge.to_node # "END" /\ edge.to_node \notin ids

\* the v2 edges that are not dropped, in their order
KeptEdges(v2, ids) == SelectSeq(v2.edges, LAMBDA edge : ~DroppedEdge(edge, ids))

DropWarningCodes ==
    {"EDGE_FROM_END_DROPPED", "EDGE_TO_START_DROPPED", "EDGE_SOURCE_MISSING_DROPPED",
     "EDGE_TARGET_MISSING_DROPPED"}

\* the number of drop warnings the call returned for the edge at position i
DropWarnings(i) ==
    Cardinality({j \in 1..Len(migration.warnings) :
                    /\ migration.warnings[j].code \in DropWarningCodes
                    /\ migration.warnings[j].idx = i - 1})

DefaultedWarnings ==
    Cardinality({j \in 1..Len(migration.warnings) :
                    migration.warnings[j].code = "NO_EDGES_DEFAULTED_TO_END"})

C25_WitnessDefaulted ==
    /\ DerivedFromV2
    /\ upc = "returned"
    /\ Len(raw_input.v2.edges) = 2
    /\ raw_input.v2.edges[1].from_node = "START"
    /\ raw_input.v2.edges[2].to_node = "START"
    /\ DefaultedWarnings = 1

\* a call on a v2 payload that reached _convert_v2_to_v3_raw
ConversionEntered ==
    /\ Upgraded
    /\ raw_input.shape = "v2"
    /\ StartsWith(detect_graph_config_version(raw_input), <<"2", ".">>)
    /\ ~is_explicit_empty_graph(raw_input)
    /\ LegacyAccepted(raw_input)

BlankId(node) == node.id \in {"", " "}

\* the id the node at position i (1-based) is to get
NormalizedId(v2, i) ==
    IF BlankId(v2.nodes[i])
    THEN CASE i = 1 -> "node_1" [] i = 2 -> "node_2" [] i = 3 -> "node_3" [] OTHER -> "node_4"
    ELSE IF v2.nodes[i].id = " a" THEN "a" ELSE v2.nodes[i].id

\* the positions whose id is the id of an earlier node
Colliding(v2) ==
    {j \in 1..Len(v2.nodes) : \E i \in 1..(j - 1) : NormalizedId(v2, i) = NormalizedId(v2, j)}

\* the positions of the nodes that have no conversion
Unconvertible(v2) ==
    {k \in 1..Len(v2.nodes) :
        v2.nodes[k].type \in {"transform", "component"} /\ ~v2.nodes[k].has_config}

DefaultedIdWarnings(i) ==
    Cardinality({j \in 1..Len(migration.warnings) :
                    /\ migration.warnings[j].code = "MISSING_NODE_ID_DEFAULTED"
                    /\ migration.warnings[j].idx = i - 1})

\* the ids of a built payload are the stripped ids, node_<i+1> for a blank
\* id at index i, non-empty and pairwise distinct, and a returned call has one
\* MISSING_NODE_ID_DEFAULTED warning per blank id
ConvertedIds ==
    /\ DerivedFromV2 =>
          LET ids == MigratedNodeIds(migration.config_v3_raw)
          IN  /\ Len(ids) = Len(raw_input.v2.nodes)
              /\ \A i \in 1..Len(ids) : ids[i] = NormalizedId(raw_input.v2, i) /\ ids[i] # ""
              /\ \A i, j \in 1..Len(ids) : i # j => ids[i] # ids[j]
    /\ (DerivedFromV2 /\ upc = "returned") =>
          \A i \in 1..Len(raw_input.v2.nodes) :
              DefaultedIdWarnings(i) = IF BlankId(raw_input.v2.nodes[i]) THEN 1 ELSE 0

\* C26: in a v2 -> v3 conversion that returns, the converted node ids are
\* non-empty and pairwise distinct, a node at index i whose id is missing or
\* blank gets node_<i+1> with one warning, and every collision of ids fails
\* with DUPLICATE_NODE_ID and gives no result.
C26_NodeIds ==
    /\ ConvertedIds
    /\ (ConversionEntered /\ Colliding(raw_input.v2) # {}) =>
          /\ migration.raised = "DUPLICATE_NODE_ID"
          /\ migration.config_v3_raw = NoPayload

\* C26 as the code has it: a collision gives no result, and its error is
\* DUPLICATE_NODE_ID unless a node before the second colliding node has no
\* conversion, whose error is raised first.
C26_NodeIdsOrEarlierFailure ==
    /\ ConvertedIds
    /\ (ConversionEntered /\ Colliding(raw_input.v2) # {}) =>
          LET v2 == raw_input.v2
              second == CHOOSE j \in Colliding(v2) : \A k \in Colliding(v2) : j <= k
              earlier == {k \in Unconvertible(v2) : k < second}
              failed == CHOOSE k \in earlier : \A l \in earlier : k <= l
          IN  /\ migration.config_v3_raw = NoPayload
              /\ migration.raised =
                    IF earlier = {} THEN "DUPLICATE_NODE_ID"
                    ELSE IF v2.nodes[failed].type = "transform"
                    THEN "MISSING_TRANSFORM_CONFIG"
                    ELSE "MISSING_COMPONENT_CONFIG"

\* a defaulted id collided with an explicit id
C26_Witness ==
    /\ ConversionEntered
    /\ Len(raw_input.v2.nodes) = 2
    /\ raw_input.v2.nodes[1].id = "node_2"
    /\ raw_input.v2.nodes[2].id = ""
    /\ migration.raised = "DUPLICATE_NODE_ID"

\* a returned conversion that defaulted the id of its second node
C26_WitnessDefaulted ==
    /\ DerivedFromV2
    /\ upc = "returned"
    /\ Len(raw_input.v2.nodes) = 2
    /\ raw_input.v2.nodes[1].id = "a"
    /\ BlankId(raw_input.v2.nodes[2])
    /\ MigratedNodeIds(migration.config_v3_raw) = <<"a", "node_2">>
    /\ DefaultedIdWarnings(2) = 1

\* two nodes share an id and the first of them has no conversion
C26_WitnessEarlierFailure ==
    /\ ConversionEntered
    /\ Colliding(raw_input.v2) # {}
    /\ migration.raised = "MISSING_TRANSFORM_CONFIG"

\* C27: the entrypoint list of a v2 -> v3 conversion holds exactly one id,
\* and that id is one of the converted node ids, in every derivation branch,
\* the first-node fallback over a defaulted or stripped first id included.
C27_EntrypointAmongConvertedIds ==
    DerivedFromV2 =>
        /\ Len(migration.config_v3_raw.v3.graph.entrypoints) = 1
        /\ migration.config_v3_raw.v3.graph.entrypoints[1]
              \in Range(MigratedNodeIds(migration.config_v3_raw))

\* where C27 fails: the first-node fallback over a first id that the node
\* conversion stripped or defaulted, and nowhere else
C27_FailsOnNormalizedFirstId ==
    (DerivedFromV2 /\ ~C27_EntrypointAmongConvertedIds) =>
        /\ raw_input.v2.nodes[1].id \in {"", " ", " a"}
        /\ migration.config_v3_raw.v3.graph.entrypoints = <<raw_input.v2.nodes[1].id>>
        /\ migration.raised = "INVALID_MIGRATED_V3_CONFIG"

\* validate_graph_config returned no errors for config
ValidatedWithoutErrors == Validated /\ errors = <<>>

HasOutgoingEdge(c, node) == \E i \in EdgeIdx(c) : c.edges[i].from_node = node

\* C28: in every config for which validate_graph_config returns no errors,
\* every node has at least one outgoing edge.
C28_EveryNodeHasOutgoingEdge ==
    ValidatedWithoutErrors =>
        \A i \in 1..Len(config.nodes) : HasOutgoingEdge(config, config.nodes[i].id)

\* C28 as the code has it: in a config without validation errors every node
\* is reached from the one entrypoint, the entrypoint has an outgoing edge,
\* some reached node has an edge to END, and every edge leaves a node and
\* ends in a node or END.
C28_EntrypointHasOutgoingEdge ==
    ValidatedWithoutErrors =>
        /\ Len(config.entrypoints) = 1
        /\ config.entrypoints[1] \in NodeIdSet(config)
        /\ HasOutgoingEdge(config, config.entrypoints[1])
        /\ NodeIdSet(config) \subseteq ReachedAmongNodes(config)
        /\ \E i \in EdgeIdx(config) : config.edges[i].to_node = "END"
        /\ \A i \in EdgeIdx(config) :
              /\ config.edges[i].from_node \in NodeIdSet(config)
              /\ config.edges[i].to_node \in NodeIdSet(config) \cup {"END"}

\* a config without validation errors that has a node without outgoing edge
C28_Witness ==
    /\ ValidatedWithoutErrors
    /\ \E i \in 1..Len(config.nodes) : ~HasOutgoingEdge(config, config.nodes[i].id)

\* the legacy condition says what the guard says
EquivalentCondition(when, condition, to_node) ==
    /\ when.type = "none" => condition.type = "none"
    /\ when.type = "builtin" =>
          /\ condition.type = "builtin"
          /\ when.cond = HAS_TOOL_CALLS => condition.cond = "has_tool_calls"
          /\ when.cond = NO_TOOL_CALLS => condition.cond = "no_tool_calls"
    /\ when.type = "predicate" =>
          /\ condition.type = "custom"
          /\ condition.state_key = when.state_path
          /\ condition.operator = when.operator
          /\ condition.value = when.value
          /\ condition.target = to_node

\* C29: the legacy config a compiler hands to its builder has the edge list
\* START -> entrypoint followed by one edge per edge of the canonical config,
\* in canonical order, each with the same from_node, to_node, priority and
\* label and an equivalent condition (absent -> none, has_tool_calls /
\* no_tool_calls -> the same built-in, predicate -> custom condition with the
\* same state path, operator and value and target = to_node); its node list
\* keeps every node id and kind; max_time_s is max_execution_time_seconds.
C29_LegacyGraphConfig ==
    pc = "compiled" =>
        LET c == compiler_config
            legacy == builder
        IN  /\ c = canonicalize_graph_config(config)
            /\ Len(legacy.edges) = Len(c.edges) + 1
            /\ legacy.edges[1].from_node = "START"
            /\ legacy.edges[1].to_node = c.entrypoints[1]
            /\ \A i \in 2..Len(legacy.edges) : legacy.edges[i].from_node # "START"
            /\ \A i \in EdgeIdx(c) :
                  /\ legacy.edges[i + 1].from_node = c.edges[i].from_node
                  /\ legacy.edges[i + 1].to_node = c.edges[i].to_node
                  /\ legacy.edges[i + 1].priority = c.edges[i].priority
                  /\ legacy.edges[i + 1].label = c.edges[i].label
                  /\ EquivalentCondition(c.edges[i].when, legacy.edges[i + 1].condition,
                                         c.edges[i].to_node)
            /\ Len(legacy.nodes) = Len(c.nodes)
            /\ \A i \in 1..Len(c.nodes) :
                  /\ legacy.nodes[i].id = c.nodes[i].id
                  /\ legacy.nodes[i].type = c.nodes[i].kind
            /\ legacy.max_execution_time_seconds = c.max_time_s

\* a compiled config whose edges the canonical order moved, with an eq
\* predicate, a priority and a label, and with a tool and a component node
C29_Witness ==
    /\ pc = "compiled"
    /\ compiler_config.edges # config.edges
    /\ Len(builder.edges) = 3
    /\ builder.edges[2].condition.type = "custom"
    /\ builder.edges[2].condition.operator = "eq"
    /\ builder.edges[2].priority = 1
    /\ builder.edges[2].label = "x"
    /\ builder.nodes[1].type = "tool"
    /\ builder.nodes[2].type = "component"
    /\ builder.max_execution_time_seconds = 2

\* a compiled config with a built-in guard
C29_WitnessBuiltin ==
    /\ pc = "compiled"
    /\ \E i \in 1..Len(builder.edges) :
          builder.edges[i].condition.type = "builtin"
          /\ builder.edges[i].condition.cond = "has_tool_calls"

----------------------------------------------------------------------------
(* What canonicalization does to the lists *)

Occurrences(q, x) == Cardinality({i \in 1..Len(q) : q[i] = x})

\* q is a permutation of r
IsPermutation(q, r) ==
    /\ Len(q) = Len(r)
    /\ \A x \in Range(q) \cup Range(r) : Occurrences(q, x) = Occurrences(r, x)

Canonicalized == pc \in {"canonical", "canonical_validated", "recanonical", "compared"}

\* C15: canonicalize_graph_config returns a config whose nodes, edges and
\* entrypoints are permutations of the input's, with nodes ascending by id,
\* entrypoints ascending and edges ascending by (from_node, -priority, guard
\* tag, guard path, guard operator, guard value JSON, to_node); among the
\* edges of one source a higher priority comes first.
C15_CanonicalOrder ==
    Canonicalized =>
        /\ IsPermutation(canonical.nodes, config.nodes)
        /\ IsPermutation(canonical.edges, config.edges)
        /\ IsPermutation(canonical.entrypoints, config.entrypoints)
        /\ canonical.schema = config.schema
        /\ canonical.max_steps = config.max_steps
        /\ canonical.max_time_s = config.max_time_s
        /\ IsCanonical(canonical)
        /\ \A i, j \in EdgeIdx(canonical) :
              (i < j /\ canonical.edges[i].from_node = canonical.edges[j].from_node)
                 => canonical.edges[i].priority >= canonical.edges[j].priority

\* C15 witness: two edges of one source were listed with the lower priority
\* first, and canonicalization exchanged them.
C15_Witness ==
    /\ pc = "canonical"
    /\ Len(config.edges) = 2
    /\ config.edges[1].from_node = config.edges[2].from_node
    /\ config.edges[1].priority < config.edges[2].priority
    /\ canonical.edges = <<config.edges[2], config.edges[1]>>

----------------------------------------------------------------------------
(* Properties of the builtin configs *)

\* C16: every builtin graph config (react, and deep research for both values
\* of allow_clarification) has schema_version 3.0 and zero validation errors:
\* a single existing entrypoint, all nodes reachable, END reachable and every
\* predicate path declared in the state schema.
C16_BuiltinsValid ==
    /\ pc = "rejected" => config \notin BuiltinPayloads
    /\ \A raw \in BuiltinPayloads : ParseAccepts(raw)
    /\ (Validated /\ config \in BuiltinPayloads) =>
          /\ config.schema_version = SCHEMA_VERSION_3_0
          /\ errors = <<>>
          /\ Len(config.entrypoints) = 1
          /\ config.entrypoints[1] \in NodeIdSet(config)
          /\ NodeIdSet(config) \subseteq ReachedAmongNodes(config)
          /\ \E i \in EdgeIdx(config) :
                config.edges[i].from_node \in ReachedAmongNodes(config)
                   /\ config.edges[i].to_node = "END"
          /\ \A i \in EdgeIdx(config) :
                config.edges[i].when.type = "predicate"
                   => config.edges[i].when.state_path \in config.schema

\* C16 witness: the deep research config without the clarify node was
\* validated.
C16_Witness ==
    /\ pc = "validated"
    /\ config \in BuiltinPayloads
    /\ config.entrypoints = <<"brief">>
    /\ Len(config.nodes) = 3

----------------------------------------------------------------------------
(* Properties of the runtime *)


\* the run is that of a compiled graph
Running == rpc # "idle"

\* no batch is in progress at or past the step limit of the compiled config
StepLimitRespected ==
    rpc = "batch" => step_count < compiler_config.max_steps

\* a step of the loop head that finds pending work at or past the step limit
\* ends the run with limit_exceeded and hands back what was merged
StepLimitEndsRun ==
    (/\ rpc = "loop" /\ rpc' # "loop"
     /\ ~cancel_signal /\ frontier # {}
     /\ step_count >= compiler_config.max_steps)
    => (rpc' = "done" /\ exit_condition' = "limit_exceeded" /\ returned_state' = merged)

\* a finished run that neither failed nor was cancelled nor ran out of time
\* stopped for the step limit, at exactly max_steps steps
EndsAtStepLimit ==
    (/\ rpc = "done"
     /\ exit_condition \notin {"cancelled", "node_failed"}
     /\ elapsed < compiler_config.max_time_s)
    => (/\ exit_condition = "limit_exceeded"
        /\ step_count = compiler_config.max_steps
        /\ Len(returned_state) = step_count)

IsBareCycle == config \in {BareCycle(lim) : lim \in RunLimits}

\* the guarded cycle run in a state where the guard of a -> END never holds
NeverSelectsEnd ==
    /\ config \in {GuardedCycle(lim) : lim \in RunLimits}
    /\ Running
    /\ ~Truthy(run_state.p)

C17_WitnessBareCycleRefused ==
    /\ config = BareCycle(<<RunMaxSteps, LongTime>>)
    /\ pc = "compile_raised"

\* the signal is up and no new batch starts
NoBatchAfterSignal ==
    cancel_signal => ~(rpc = "loop" /\ rpc' = "batch")

\* the batch in progress when the signal is up completes with its patches merged
SignalledBatchMerged ==
    (cancel_signal /\ rpc = "batch" /\ rpc' = "loop")
    => (merged' = merged \o BatchPatches(batch) /\ batch' = {})

\* the loop head that sees the signal ends the run with cancelled and hands
\* back every merge made so far
SignalEndsRun ==
    (cancel_signal /\ rpc = "loop" /\ rpc' # "loop")
    => (rpc' = "done" /\ exit_condition' = "cancelled" /\ returned_state' = merged)

----------------------------------------------------------------------------
(* Properties of the agent factory *)

Injected == ipc = "injected"

\* the value of a dict, whoever owns its parts
ValueOfNode(node) ==
    [node EXCEPT !.owner = "caller", !.cfg.owner = "caller",
                 !.cfg.config_overrides.owner = "caller"]

ValueOf(c) ==
    [c EXCEPT !.owner = "caller", !.graph_owner = "caller", !.list_owner = "caller",
              !.nodes = [i \in 1..Len(c.nodes) |-> ValueOfNode(c.nodes[i])]]

\* the nodes the call looks at
NodeListOf(c) == IF c.shape \in {"v2", "v3"} THEN c.nodes ELSE <<>>

HasPromptNode(c) ==
    \E i \in 1..Len(NodeListOf(c)) : NodeListOf(c)[i].tag \in {"llm", "component"}

\* C19: the call leaves the caller's dict as it was, at every depth and in
\* both shapes, and what it returns equals the input when no node is an llm
\* or a component node.
C19_InjectionLeavesInput ==
    Injected =>
        /\ config_dict = inject_input
        /\ injected.owner # "caller"
        /\ ~HasPromptNode(inject_input) => ValueOf(injected) = inject_input

C19_Witness ==
    /\ Injected
    /\ inject_input.shape = "v3"
    /\ Len(inject_input.nodes) = 2
    /\ \A i \in 1..2 : inject_input.nodes[i].tag \in {"llm", "component"}
    /\ inject_input.nodes[1].cfg.kind = "dict"
    /\ inject_input.nodes[2].cfg.kind = "absent"
    /\ ValueOf(injected) # inject_input
    /\ config_dict = inject_input

C19_WitnessNoPromptNode ==
    /\ Injected
    /\ inject_input.shape = "v2"
    /\ Len(inject_input.nodes) = 2
    /\ ~HasPromptNode(inject_input)
    /\ ValueOf(injected) = inject_input

\* text holds a <NODE_PROMPT> block with part inside it
ContainsNodePromptBlock(text, part) ==
    \E i \in 1..Len(text), j \in 1..Len(text) :
        /\ i < j
        /\ text[i] = "<NODE_PROMPT>"
        /\ text[j] = "</NODE_PROMPT>"
        /\ \E k \in (i + 1)..(j - Len(part)) : SubSeq(text, k, k + Len(part) - 1) = part

NonBlank(prompt) == prompt.kind = "str" /\ StripText(prompt.text) # <<>>

\* the layering as the claim words it: the result starts with the base, holds
\* the node's own prompt in a block, and is the base when there is none
LayeredOn(result, base, own) ==
    /\ result.kind = "str"
    /\ StartsWith(result.text, base)
    /\ NonBlank(own) => ContainsNodePromptBlock(result.text, own.text)
    /\ ~NonBlank(own) => result.text = base

\* the same with surrounding whitespace set aside on both prompts
LayeredOnStripped(result, base, own) ==
    /\ result.kind = "str"
    /\ StartsWith(result.text, StripText(base))
    /\ NonBlank(own) => ContainsNodePromptBlock(result.text, StripText(own.text))
    /\ ~NonBlank(own) => result.text = StripText(base)

\* the node's config can take a prompt: it is a dict, or missing
Writable(value) == value.kind \in {"dict", "absent"}

\* C20 as stated: for a non-empty system prompt P every llm node's
\* prompt_template starts with P and holds the node's non-blank prompt N in
\* a <NODE_PROMPT> block, and every component node's
\* config_overrides.system_prompt follows the same rule, being P when the
\* node had no prompt of its own.
C20_PromptLayered ==
    (Injected /\ inject_prompt # <<>>) =>
        \A i \in 1..Len(NodeListOf(inject_input)) :
            LET before == inject_input.nodes[i]
                after == injected.nodes[i]
            IN  /\ before.tag = "llm" =>
                    LayeredOn(after.cfg.prompt_template, inject_prompt,
                              before.cfg.prompt_template)
                /\ before.tag = "component" =>
                    LayeredOn(after.cfg.config_overrides.system_prompt, inject_prompt,
                              before.cfg.config_overrides.system_prompt)

\* C20: for a system prompt P that is not blank, with P and the node prompt N
\* taken without surrounding whitespace, every llm node whose config is a dict
\* or missing gets a prompt_template that starts with P and holds a non-blank
\* N in a <NODE_PROMPT> block, and every component node whose config and
\* config_overrides are dicts or missing gets config_overrides.system_prompt
\* by the same rule, equal to P when the node had no prompt of its own.
C20_StrippedPromptLayered ==
    (Injected /\ StripText(inject_prompt) # <<>>) =>
        \A i \in 1..Len(NodeListOf(inject_input)) :
            LET before == inject_input.nodes[i]
                after == injected.nodes[i]
            IN  /\ (before.tag = "llm" /\ Writable(before.cfg)) =>
                    LayeredOnStripped(after.cfg.prompt_template, inject_prompt,
                                      before.cfg.prompt_template)
                /\ (/\ before.tag = "component"
                    /\ Writable(before.cfg)
                    /\ Writable(before.cfg.config_overrides)) =>
                    LayeredOnStripped(after.cfg.config_overrides.system_prompt,
                                      inject_prompt,
                                      before.cfg.config_overrides.system_prompt)

C20_Witness ==
    /\ Injected
    /\ inject_prompt = <<" ", "p">>
    /\ Len(inject_input.nodes) = 2
    /\ inject_input.nodes[1].tag = "llm"
    /\ inject_input.nodes[1].cfg.prompt_template = Str(<<" ", "n">>)
    /\ inject_input.nodes[2].tag = "llm"
    /\ inject_input.nodes[2].cfg.prompt_template = Str(<<"n">>)
    /\ \A i \in 1..2 :
          injected.nodes[i].cfg.prompt_template
              = Str(<<"p", "\n", "\n", "<NODE_PROMPT>", "\n", "n", "\n", "</NODE_PROMPT>">>)

C20_WitnessComponent ==
    /\ Injected
    /\ inject_prompt = <<"p">>
    /\ Len(inject_input.nodes) = 2
    /\ inject_input.nodes[2].tag = "component"
    /\ inject_input.nodes[2].cfg.kind = "absent"
    /\ injected.nodes[2].cfg.config_overrides.system_prompt = Str(<<"p">>)

----------------------------------------------------------------------------
(* Properties of the component registry *)

\* C21: register of an existing key without override raises ValueError and
\* leaves the registry as it was; with override it replaces the entry; and
\* every key maps to the component of the last register that returned for it.
C21_RegisterUnique ==
    /\ [](\A k \in ComponentKeys : components[k] = last_registered[k])
    /\ [][register_outcome' # NoRegister =>
            LET component == register_outcome'.component
                override == register_outcome'.override
            IN  IF components[component.key] # NoComponent /\ ~override
                THEN /\ register_outcome'.outcome = "ValueError"
                     /\ components' = components
                ELSE /\ register_outcome'.outcome = "returned"
                     /\ components'[component.key] = component
                     /\ \A k \in ComponentKeys \ {component.key} :
                           components'[k] = components[k]]_vars

C21_Witness ==
    /\ register_outcome = Registered(Component("react", VersionText(TRUE, 2, 1, 0)),
                                     TRUE, "returned")
    /\ components_registered
    /\ components["react"] = Component("react", VersionText(TRUE, 2, 1, 0))

C21_WitnessRaised ==
    /\ register_outcome.outcome = "ValueError"
    /\ register_outcome.component.key = "custom"
    /\ components["custom"] # register_outcome.component

\* the registry holds the five built-in components and nothing else
HoldsBuiltins ==
    /\ \A i \in 1..Len(BuiltinComponents) :
          components[BuiltinKeys[i]] = BuiltinComponents[i]
    /\ components["custom"] = NoComponent

\* C22: once a call of ensure_components_registered has completed, every
\* further call returns without raising and without touching the registry,
\* and, nothing else having registered, the registry holds the five built-ins.
C22_EnsureIdempotent ==
    /\ [](ensure_outcome = "completed" => components_registered)
    /\ [](components_registered =>
            /\ epc = 0
            /\ ensure_outcome \in {"completed", "returned"}
            /\ ~outside_registered => HoldsBuiltins)
    /\ [][components_registered =>
            /\ components_registered'
            /\ epc' = 0
            /\ ensure_outcome' \in {"completed", "returned"}
            /\ components' # components => register_outcome'.outcome = "returned"]_vars

C22_Witness ==
    /\ components_registered
    /\ ensure_outcome = "returned"
    /\ ~outside_registered
    /\ HoldsBuiltins

\* C30 as stated: after a call of ensure_components_registered that failed
\* with some built-ins registered, no later call fails on a component that
\* is registered already (nothing but ensure_components_registered having
\* registered).
C30_LaterCallCompletes ==
    (failed_midway /\ ~outside_registered) => ensure_outcome # "ValueError"

\* what holds instead: after such a failure the flag is never set
C30_FailureIsPermanent ==
    (failed_midway /\ ~outside_registered) => ~components_registered

\* a call of resolve has returned
Resolved == resolve_args # NoResolve

\* the constraint is one of the documented forms, with a version that parses
WellFormed(constraint) ==
    /\ constraint.prefix \in {"^", "~"} \cup SpecifierOperators
    /\ constraint.text.ok

\* version lies in [low, high)
InRange(version, low, high) ==
    version.ok /\ VersionLeq(low, version) /\ VersionLt(version, high)

\* the version meets the constraint, as the documented forms read
Meets(version, constraint) ==
    LET base == constraint.text
    IN  CASE constraint.prefix = "^" ->
                InRange(version, base, VersionText(TRUE, base.major + 1, 0, 0))
          [] constraint.prefix = "~" ->
                InRange(version, base, VersionText(TRUE, base.major, base.minor + 1, 0))
          [] constraint.prefix = "==" -> version = base
          [] constraint.prefix = "!=" -> version.ok /\ version # base
          [] constraint.prefix = ">=" -> version.ok /\ VersionLeq(base, version)
          [] constraint.prefix = "<=" -> version.ok /\ VersionLeq(version, base)
          [] constraint.prefix = ">" -> version.ok /\ VersionLt(base, version)
          [] OTHER -> version.ok /\ VersionLt(version, base)

\* what resolve is to return by the documented forms
Expected(component, constraint) ==
    IF component = NoComponent THEN NoComponent
    ELSE IF constraint = Wildcard THEN component
    ELSE IF ~WellFormed(constraint) THEN component
    ELSE IF Meets(component.version, constraint) THEN component
    ELSE NoComponent

C23_WitnessCaret ==
    /\ Resolved
    /\ resolve_args.constraint = Constraint("^", VersionText(TRUE, 2, 0, 0))
    /\ components["react"] = Component("react", VersionText(TRUE, 2, 1, 0))
    /\ resolved = components["react"]

C23_WitnessUnparsed ==
    /\ Resolved
    /\ resolve_args.constraint = Constraint("~=", VersionText(TRUE, 1, 0, 0))
    /\ components["custom"] = Component("custom", VersionText(TRUE, 2, 1, 0))
    /\ resolved = components["custom"]

----------------------------------------------------------------------------
(* Cycles and limits *)

\* C24: CYCLE_LIMITS_REQUIRED is reported exactly when the edges between
\* existing nodes form a directed cycle (self-loops included) and neither
\* max_steps nor max_time_s is positive; and _has_cycle gives the one answer,
\* cycle or not, from whatever node its search starts.
C24_CycleLimitsRequired ==
    /\ pc = "parsed" => CycleResults(config) = {HasDirectedCycle(config)}
    /\ pc = "validated" =>
          ("CYCLE_LIMITS_REQUIRED" \in Codes(errors)
             <=> (/\ HasDirectedCycle(config)
                  /\ config.max_steps <= 0
                  /\ config.max_time_s <= 0))

C24_Witness ==
    /\ pc = "validated"
    /\ Len(config.nodes) = 2
    /\ \E i \in EdgeIdx(config) : config.edges[i].from_node # config.edges[i].to_node
    /\ \A i \in EdgeIdx(config) : AmongNodes(config, config.edges[i])
    /\ config.max_steps = 0 /\ config.max_time_s = 0
    /\ "CYCLE_LIMITS_REQUIRED" \in Codes(errors)

C24_WitnessSelfLoop ==
    /\ pc = "validated"
    /\ Len(config.edges) = 1
    /\ config.edges[1].from_node = config.edges[1].to_node
    /\ "CYCLE_LIMITS_REQUIRED" \in Codes(errors)

C24_WitnessOneLimit ==
    /\ pc = "validated"
    /\ HasDirectedCycle(config)
    /\ config.max_steps = 0 /\ config.max_time_s = 1
    /\ "CYCLE_LIMITS_REQUIRED" \notin Codes(errors)

====
